---- MODULE Spec2Model ----
(***************************************************************************)
(* A model of the HippoSync web client: the validating Signup form, the    *)
(* verify-email landing page and the Chat shell with its Sidebar.          *)
(*                                                                         *)
(* User-typed text (emails, passwords) is a sequence of one-character      *)
(* strings so that the validators can be computed as the code computes     *)
(* them.  Fixed messages of the program are TLA+ strings.                  *)
(* Each component has its own specification (SpecSignup, SpecVerify, Spec  *)
(* for the Chat shell); the variables of the components that are not       *)
(* mounted in a specification keep their initial values.                   *)
(***************************************************************************)
EXTENDS Integers, Sequences, FiniteSets, TLC

-----------------------------------------------------------------------------
(* Text helpers: what the String and RegExp methods used by the code do.   *)

UpperSeq ==
  <<"A","B","C","D","E","F","G","H","I","J","K","L","M","N","O","P","Q","R","S","T","U","V","W","X","Y","Z">>
LowerSeq ==
  <<"a","b","c","d","e","f","g","h","i","j","k","l","m","n","o","p","q","r","s","t","u","v","w","x","y","z">>
UpperChars == {UpperSeq[i] : i \in 1..Len(UpperSeq)}
LowerChars == {LowerSeq[i] : i \in 1..Len(LowerSeq)}
DigitChars == {"0","1","2","3","4","5","6","7","8","9"}
\* \s of the email regex
WhitespaceChars == {" ", "\t", "\n", "\r", "\f"}
\* characters the regex dot does not match
LineTerminators == {"\n", "\r"}
\* the character class of the special-character check; the backtick, which
\* a TLA+ string cannot hold, is written "backtick"
SpecialChars ==
  {"!","@","#","$","%","^","&","*","(",")",",",".","?","\"",":","{","}","|","<",">","_","-","+","=","[","]","\\","/",";","backtick","~"}

\* String.prototype.toLowerCase, one character
LowerChar(c) ==
  IF c \in UpperChars
    THEN LowerSeq[CHOOSE i \in 1..Len(UpperSeq) : UpperSeq[i] = c]
    ELSE c

\* String.prototype.toLowerCase
toLowerCase(s) == [i \in 1..Len(s) |-> LowerChar(s[i])]

\* String.prototype.includes
includes(s, sub) ==
  \E i \in 0..(Len(s) - Len(sub)) :
    \A k \in 1..Len(sub) : s[i + k] = sub[k]

\* RegExp.test for a single character class
testClass(s, class) == \E i \in 1..Len(s) : s[i] \in class

RECURSIVE split(_, _)
\* String.prototype.split with a one-character separator
split(s, sep) ==
  IF \A i \in 1..Len(s) : s[i] # sep THEN <<s>>
  ELSE LET first == CHOOSE i \in 1..Len(s) :
                      s[i] = sep /\ \A j \in 1..(i - 1) : s[j] # sep
       IN <<SubSeq(s, 1, first - 1)>> \o split(SubSeq(s, first + 1, Len(s)), sep)

-----------------------------------------------------------------------------
(* Validation utilities of Signup.jsx                                      *)

DISPOSABLE_DOMAINS ==
  { <<"t","e","m","p","m","a","i","l",".","c","o","m">>,
    <<"t","h","r","o","w","a","w","a","y",".","e","m","a","i","l">>,
    <<"g","u","e","r","r","i","l","l","a","m","a","i","l",".","c","o","m">>,
    <<"m","a","i","l","i","n","a","t","o","r",".","c","o","m">>,
    <<"1","0","m","i","n","u","t","e","m","a","i","l",".","c","o","m">>,
    <<"t","r","a","s","h","m","a","i","l",".","c","o","m">>,
    <<"f","a","k","e","i","n","b","o","x",".","c","o","m">>,
    <<"t","e","m","p","-","m","a","i","l",".","o","r","g">>,
    <<"y","o","p","m","a","i","l",".","c","o","m">>,
    <<"m","a","i","l","d","r","o","p",".","c","c">>,
    <<"g","e","t","n","a","d","a",".","c","o","m">>,
    <<"s","h","a","r","k","l","a","s","e","r","s",".","c","o","m">> }

COMMON_PASSWORDS ==
  { <<"p","a","s","s","w","o","r","d">>,
    <<"1","2","3","4","5","6">>,
    <<"1","2","3","4","5","6","7","8">>,
    <<"q","w","e","r","t","y">>,
    <<"a","b","c","1","2","3">>,
    <<"l","e","t","m","e","i","n">>,
    <<"p","a","s","s","w","o","r","d","1">>,
    <<"1","2","3","4","5","6","7","8","9">>,
    <<"1","2","3","4","5">>,
    <<"p","a","s","s","w","o","r","d","1","2","3">>,
    <<"a","d","m","i","n">>,
    <<"w","e","l","c","o","m","e">> }

\* the pattern without its dot, /^[^\s@]+@[^\s@]+$/ (a defect the claims
\* must detect)
emailRegexTest_NoDot(email) ==
  \E i \in 1..Len(email) :
    /\ email[i] = "@"
    /\ i > 1
    /\ i < Len(email)
    /\ \A k \in 1..Len(email) :
         k # i => email[k] \notin (WhitespaceChars \cup {"@"})

\* /^[^\s@]+@[^\s@]+\.[^\s@]+$/
emailRegexTest(email) ==
  \E i \in 1..Len(email) : \E j \in 1..Len(email) :
    /\ email[i] = "@"
    /\ i > 1
    /\ email[j] = "."
    /\ j > i + 1
    /\ j < Len(email)
    /\ \A k \in 1..Len(email) :
         k # i => email[k] \notin (WhitespaceChars \cup {"@"})

TestDomainWords ==
  { <<"t","e","s","t">>, <<"e","x","a","m","p","l","e">>, <<"t","e","m","p">> }

\* the validator without the case folding of the domain (a defect the claims
\* must detect)
validateEmail_NoFold(email) ==
  IF email = <<>>
    THEN [isValid |-> FALSE, errors |-> <<"Email is required">>]
  ELSE IF ~emailRegexTest(email)
    THEN [isValid |-> FALSE, errors |-> <<"Invalid email format">>]
  ELSE
    LET domain == split(email, "@")[2]
        e1 == IF domain \in DISPOSABLE_DOMAINS
                THEN <<"Disposable email addresses are not allowed. Please use a legitimate email.">>
                ELSE <<>>
        e2 == IF \E w \in TestDomainWords : includes(domain, w)
                THEN <<"Test or temporary email domains are not allowed">>
                ELSE <<>>
        e3 == IF ~includes(domain, <<".">>)
                THEN <<"Email domain is invalid">>
                ELSE <<>>
        errors == e1 \o e2 \o e3
    IN [isValid |-> Len(errors) = 0, errors |-> errors]

validateEmail(email) ==
  IF email = <<>>
    THEN [isValid |-> FALSE, errors |-> <<"Email is required">>]
  ELSE IF ~emailRegexTest(email)
    THEN [isValid |-> FALSE, errors |-> <<"Invalid email format">>]
  ELSE
    LET parts == split(email, "@")
        \* email.split('@')[1]?.toLowerCase(); undefined is falsy like ''
        domain == IF Len(parts) < 2 THEN <<>> ELSE toLowerCase(parts[2])
    IN IF domain = <<>>
         THEN [isValid |-> FALSE, errors |-> <<"Invalid email domain">>]
       ELSE
         LET e1 == IF domain \in DISPOSABLE_DOMAINS
                     THEN <<"Disposable email addresses are not allowed. Please use a legitimate email.">>
                     ELSE <<>>
             e2 == IF \E w \in TestDomainWords : includes(domain, w)
                     THEN <<"Test or temporary email domains are not allowed">>
                     ELSE <<>>
             e3 == IF ~includes(domain, <<".">>)
                     THEN <<"Email domain is invalid">>
                     ELSE <<>>
             errors == e1 \o e2 \o e3
         IN [isValid |-> Len(errors) = 0, errors |-> errors]

\* the list without the runs that start at 1, 2, 3 and a (a defect the
\* claims must detect)
sequences_Fewer ==
  << <<"4","5","6">>, <<"5","6","7">>, <<"6","7","8">>, <<"7","8","9">>,
     <<"b","c","d">>, <<"c","d","e">> >>

sequences ==
  << <<"1","2","3">>, <<"2","3","4">>, <<"3","4","5">>, <<"4","5","6">>,
     <<"5","6","7">>, <<"6","7","8">>, <<"7","8","9">>,
     <<"a","b","c">>, <<"b","c","d">>, <<"c","d","e">> >>

\* /(.)\1{2,}/
repeatedRegexTest(s) ==
  \E i \in 1..(Len(s) - 2) :
    /\ s[i] \notin LineTerminators
    /\ s[i + 1] = s[i]
    /\ s[i + 2] = s[i]

\* the order of the keys of the checks object
CheckNames ==
  <<"length", "uppercase", "lowercase", "number", "special",
    "common", "sequential", "repeated">>

\* one entry of the checks object: passed and, when failed, its error
Check(passed, error) ==
  [passed |-> passed, error |-> IF passed THEN "" ELSE error]

InitialChecks ==
  [length     |-> [passed |-> FALSE, error |-> ""],
   uppercase  |-> [passed |-> FALSE, error |-> ""],
   lowercase  |-> [passed |-> FALSE, error |-> ""],
   number     |-> [passed |-> FALSE, error |-> ""],
   special    |-> [passed |-> FALSE, error |-> ""],
   common     |-> [passed |-> TRUE, error |-> ""],
   sequential |-> [passed |-> TRUE, error |-> ""],
   repeated   |-> [passed |-> TRUE, error |-> ""]]

\* only the first failed check is reported (a defect the claims must detect)
CheckErrors_FirstOnly(checks, i) ==
  LET failed == {k \in i..Len(CheckNames) : ~checks[CheckNames[k]].passed}
  IN IF failed = {} THEN <<>>
     ELSE <<checks[CheckNames[CHOOSE k \in failed :
                                \A j \in failed : k <= j]].error>>

RECURSIVE CheckErrors(_, _)
\* Object.values(checks).filter(c => !c.passed && c.error).map(c => c.error)
CheckErrors(checks, i) ==
  IF i > Len(CheckNames) THEN <<>>
  ELSE LET c == checks[CheckNames[i]]
       IN (IF ~c.passed /\ c.error # "" THEN <<c.error>> ELSE <<>>)
            \o CheckErrors(checks, i + 1)

MinPasswordLength == 8

validatePassword(password) ==
  IF password = <<>>
    THEN [isValid |-> FALSE, checks |-> InitialChecks,
          errors |-> <<"Password is required">>]
  ELSE
    LET lower == toLowerCase(password)
        checks ==
          [length     |-> Check(Len(password) >= MinPasswordLength,
                                "Password must be at least 8 characters"),
           uppercase  |-> Check(testClass(password, UpperChars),
                                "Add at least one uppercase letter (A-Z)"),
           lowercase  |-> Check(testClass(password, LowerChars),
                                "Add at least one lowercase letter (a-z)"),
           number     |-> Check(testClass(password, DigitChars),
                                "Add at least one number (0-9)"),
           special    |-> Check(testClass(password, SpecialChars),
                                "Add at least one special character"),
           common     |-> Check(lower \notin COMMON_PASSWORDS,
                                "This password is too common"),
           sequential |-> Check(~\E k \in 1..Len(sequences) :
                                    includes(lower, sequences[k]),
                                "Avoid sequential characters like 123 or abc"),
           repeated   |-> Check(~repeatedRegexTest(password),
                                "Avoid repeating the same character 3+ times")]
        errors == CheckErrors(checks, 1)
    IN [isValid |-> Len(errors) = 0, checks |-> checks, errors |-> errors]

-----------------------------------------------------------------------------
(* State.                                                                  *)

VARIABLES
  \* --- Signup (Signup.jsx): component state
  email, password, name, occupation, allowLocation, location, locationError,
  error, success, loading, emailValidation, passwordValidation, touched,
  \* --- Signup: environment
  route,          \* the router's location: [path, state]
  geoSupported,   \* whether navigator.geolocation exists
  posPending,     \* getCurrentPosition calls not yet answered
  geocodePending, \* reverse-geocoding fetches in flight (their coordinates)
  signupReq,      \* POST /auth/signup requests in flight (their payloads)
  navTimers,      \* pending setTimeout(navigate) closures (their email)
  lsToken,        \* localStorage 'token'
  ssToken,        \* sessionStorage 'token'
  submits,        \* history: submit events handled
  signupPosts     \* history: POST /auth/signup requests issued

signupVars ==
  <<email, password, name, occupation, allowLocation, location,
    locationError, error, success, loading, emailValidation,
    passwordValidation, touched, route, geoSupported, posPending,
    geocodePending, signupReq, navTimers, lsToken, ssToken, submits,
    signupPosts>>

VARIABLES
  \* --- EmailVerifiedPage (EmailVerifiedPage.jsx): component state
  token,                \* searchParams.get('token')
  verificationAttempted,\* the useRef guard
  status, message, verifiedEmail, countdown,
  \* --- EmailVerifiedPage: environment
  mounted,        \* whether the page is mounted
  navTo,          \* the target of the last navigate() of the page
  verifyReq,      \* GET /auth/verify-email requests in flight
  timers,         \* intervals started by the page and not cleared
  effectRuns,     \* history: runs of the verification effect
  verifyCalls,    \* history: GET /auth/verify-email requests issued
  timerTicks,     \* history: interval callbacks run
  timerNavs,      \* history: navigations to /login made by the interval
  verifyAnswer    \* history: the answer to GET /auth/verify-email handled last

verifyVars ==
  <<token, verificationAttempted, status, message, verifiedEmail, countdown,
    mounted, navTo, verifyReq, timers, effectRuns, verifyCalls, timerTicks,
    timerNavs, verifyAnswer>>

VARIABLES
  \* --- Chat (Chat.jsx): component state
  thread,         \* the selected thread, or null
  messages,       \* the displayed message list
  \* --- Sidebar (Sidebar.jsx): component state
  projects, personalThreads, projectThreads,
  \* --- Chat and Sidebar: environment
  chatMounted,    \* whether Chat (and its Sidebar) has run its mount effects
  lastThread,     \* localStorage 'last-thread'
  srvThreads,     \* the backend's threads
  nextId,         \* the id the backend gives the next thread
  pending,        \* requests in flight, in the order they were issued
  ops,            \* history: user operations handled
  ev              \* history: what the last step did

chatVars ==
  <<thread, messages, projects, personalThreads, projectThreads, chatMounted,
    lastThread, srvThreads, nextId, pending, ops, ev>>

VARIABLES
  \* --- App (App.jsx): component state
  user,           \* the current user, or null
  view,           \* 'login', 'signup' or 'chat'
  \* --- Login (Login.jsx): component state
  loginError,
  \* --- App: environment (localStorage 'token' is lsToken above)
  appMounted,     \* whether the page is loaded and App has run its effect
  authHeader,     \* api.defaults.headers.common['Authorization'], or null
  meReq,          \* GET /auth/me requests in flight (who issued them)
  loginReq,       \* POST /auth/login requests in flight
  logins,         \* history: login forms submitted
  unhandled,      \* history: promise rejections no handler caught
  appEv,          \* history: the step of App taken last
  \* --- the routed App (README.md): its loading state and the router
  appLoading,     \* `loading` of App
  path            \* the location the router shows

appVars ==
  <<user, view, loginError, appMounted, authHeader, meReq, loginReq, logins,
    unhandled, appEv, appLoading, path>>

VARIABLES
  \* --- VerifyEmailPage (Signup.jsx, second component): component state
  isResending, resendMessage, resendError,
  \* --- VerifyEmailPage: environment
  navState,       \* location.state of the route, or null
  vpMounted,      \* whether the page is mounted
  resendReq,      \* POST /auth/resend-verification in flight (their bodies)
  resends,        \* history: clicks on the resend button handled
  resendPosts     \* history: POST /auth/resend-verification issued

resendVars ==
  <<isResending, resendMessage, resendError, navState, vpMounted, resendReq,
    resends, resendPosts>>

vars == <<signupVars, verifyVars, chatVars, appVars, resendVars>>

\* the last element of a non-empty sequence
Last(seq) == seq[Len(seq)]

\* JavaScript null where the other values are records
NullRec == [null |-> TRUE]
\* JavaScript null where the other values are strings
NullStr == "<null>"
\* a key that localStorage / sessionStorage does not hold
NoItem == "<absent>"

-----------------------------------------------------------------------------
(* Signup: bounds and inputs.                                              *)

\* submit events considered in one behaviour
MaxSubmits == 2
\* geolocation requests outstanding at once
MaxGeo == 1

Emails ==
  { <<>>,
    <<"a","@","b",".","c","o">>,
    <<"x","@","M","a","i","l","i","n","a","t","o","r",".","c","o","m">> }

Passwords ==
  { <<>>,
    <<"P","a","s","s","w","0","r","d","!">>,
    <<"a","b","c","1","2","3","4","5">> }

Names == { <<>>, <<"N">> }
Occupations == { <<>>, <<"O">> }

\* position.coords of the browser
Coords == { [latitude |-> "48.85", longitude |-> "2.35"] }
\* data.address of the reverse geocoder; a missing field is ""
Addresses ==
  { [city |-> "Paris", town |-> "", village |-> "", state |-> "IDF", country |-> "France"],
    [city |-> "", town |-> "", village |-> "", state |-> "", country |-> ""] }
\* Intl.DateTimeFormat().resolvedOptions().timeZone
LocalTimezone == "Europe/Paris"
\* e.response?.data?.detail of a failed signup; "" when there is none
SignupDetails == { "", "Email already registered" }
StoredTokens == { NoItem, "tok" }

-----------------------------------------------------------------------------
(* Signup: the component.                                                  *)

UnsetValidation == [unset |-> TRUE]

SignupMounted == route.path = "/signup"

\* lines 272-278: the location record built from the geocoder's answer
BuildLocation(coords, addr) ==
  LET city == IF addr.city # "" THEN addr.city
              ELSE IF addr.town # "" THEN addr.town
              ELSE IF addr.village # "" THEN addr.village
              ELSE "Unknown"
      state == addr.state
      country == addr.country
  IN [city |-> city, state |-> state, country |-> country,
      latitude |-> coords.latitude, longitude |-> coords.longitude,
      timezone |-> LocalTimezone,
      formatted |-> <<city>>
                      \o (IF state # "" THEN <<", ", state>> ELSE <<>>)
                      \o (IF country # "" THEN <<", ", country>> ELSE <<>>)]

\* requestLocation, up to the asynchronous getCurrentPosition call
requestLocation ==
  IF ~geoSupported
    THEN /\ locationError' = "Geolocation not supported by your browser"
         /\ posPending' = posPending
    ELSE /\ posPending' = posPending + 1
         /\ locationError' = locationError

\* useEffect(..., [allowLocation]) with the values of the render `allow`
LocationEffect(allow) ==
  IF allow /\ location = NullRec /\ locationError = ""
    THEN requestLocation
    ELSE UNCHANGED <<locationError, posPending>>

\* The payload of submit: the keys it holds and their values.
SignupPayload ==
  [keys |-> {"email", "password"}
            \cup (IF name # <<>> THEN {"name"} ELSE {})
            \cup (IF occupation # <<>> THEN {"occupation"} ELSE {})
            \cup (IF location # NullRec
                    THEN {"location_city", "location_state", "location_country",
                          "location_latitude", "location_longitude",
                          "location_timezone", "location_formatted"}
                    ELSE {}),
   email |-> email, password |-> password, name |-> name,
   occupation |-> occupation, location |-> location]

\* Signup is not mounted: its state stays as constructed.
SignupUnmounted ==
  /\ email = <<>> /\ password = <<>> /\ name = <<>> /\ occupation = <<>>
  /\ allowLocation = TRUE
  /\ location = NullRec
  /\ locationError = ""
  /\ error = NullStr
  /\ success = FALSE
  /\ loading = FALSE
  /\ emailValidation = UnsetValidation
  /\ passwordValidation = UnsetValidation
  /\ touched = [email |-> FALSE, password |-> FALSE]
  /\ route = [path |-> "<unmounted>", email |-> <<>>]
  /\ geoSupported = TRUE
  /\ posPending = 0
  /\ geocodePending = <<>>
  /\ signupReq = <<>>
  /\ navTimers = <<>>
  /\ ssToken = NoItem
  /\ submits = 0
  /\ signupPosts = 0

SignupIdle == SignupUnmounted /\ lsToken = NoItem

\* App is not loaded
AppIdle ==
  /\ user = NullRec
  /\ view = "login"
  /\ loginError = NullStr
  /\ appMounted = FALSE
  /\ authHeader = NullRec
  /\ meReq = <<>>
  /\ loginReq = 0
  /\ logins = 0
  /\ unhandled = 0
  /\ appEv = "init"
  /\ appLoading = TRUE
  /\ path = "/"

\* an answer to GET /auth/verify-email: resolved with response.data.status,
\* or rejected; NoAnswer before any
Answer(settled, st) == [settled |-> settled, status |-> st]
NoAnswer == Answer("none", "")

\* VerifyEmailPage is not mounted
ResendIdle ==
  /\ isResending = FALSE
  /\ resendMessage = ""
  /\ resendError = ""
  /\ navState = NullRec
  /\ vpMounted = FALSE
  /\ resendReq = <<>>
  /\ resends = 0
  /\ resendPosts = 0

\* EmailVerifiedPage is not mounted
VerifyIdle ==
  /\ token = NullStr
  /\ verificationAttempted = FALSE
  /\ status = "verifying"
  /\ message = ""
  /\ verifiedEmail = ""
  /\ countdown = 3
  /\ mounted = FALSE
  /\ navTo = NullStr
  /\ verifyReq = 0
  /\ timers = 0
  /\ effectRuns = 0
  /\ verifyCalls = 0
  /\ timerTicks = 0
  /\ timerNavs = 0
  /\ verifyAnswer = NoAnswer

\* the text JSON.stringify(v) produces
JSONstringify(v) == [json |-> v]
\* a localStorage key that is not set (getItem returns null)
ItemAbsent == [absent |-> TRUE]
\* a stored text that is not JSON
ItemGarbage == [garbage |-> TRUE]
\* no step has been taken yet
NoEvent ==
  [op |-> "init", alert |-> "", signal |-> FALSE, gets |-> {},
   req |-> [null |-> TRUE]]

\* Chat is not mounted
ChatIdle ==
  /\ thread = NullRec
  /\ messages = <<>>
  /\ projects = <<>>
  /\ personalThreads = <<>>
  /\ projectThreads = <<>>
  /\ chatMounted = FALSE
  /\ lastThread = ItemAbsent
  /\ srvThreads = {}
  /\ nextId = 1
  /\ pending = <<>>
  /\ ops = 0
  /\ ev = NoEvent

\* a step of Signup leaves the other components alone
SignupOnly == UNCHANGED <<verifyVars, chatVars, appVars, resendVars>>

InitSignup ==
  /\ VerifyIdle
  /\ ResendIdle
  /\ ChatIdle
  /\ AppIdle
  /\ email = <<>> /\ password = <<>> /\ name = <<>> /\ occupation = <<>>
  /\ allowLocation = TRUE
  /\ location = NullRec
  /\ locationError = ""
  /\ error = NullStr
  /\ success = FALSE
  /\ loading = FALSE
  /\ emailValidation = UnsetValidation
  /\ passwordValidation = UnsetValidation
  /\ touched = [email |-> FALSE, password |-> FALSE]
  /\ route = [path |-> "<unmounted>", email |-> <<>>]
  /\ geoSupported \in BOOLEAN
  /\ posPending = 0
  /\ geocodePending = <<>>
  /\ signupReq = <<>>
  /\ navTimers = <<>>
  /\ lsToken \in StoredTokens
  /\ ssToken \in StoredTokens
  /\ submits = 0
  /\ signupPosts = 0

\* The first render of Signup and its mount effects.
SignupMount ==
  /\ route.path = "<unmounted>"
  /\ route' = [path |-> "/signup", email |-> <<>>]
  /\ LocationEffect(allowLocation)
  /\ UNCHANGED <<email, password, name, occupation, allowLocation, location,
                 error, success, loading, emailValidation, passwordValidation,
                 touched, geoSupported, geocodePending, signupReq, navTimers,
                 lsToken, ssToken, submits, signupPosts>>
  /\ SignupOnly

\* onChange of the email input and the real-time validation effect
SetEmail(e) ==
  /\ SignupMounted /\ ~loading
  /\ e # email
  /\ email' = e
  /\ emailValidation' = IF touched.email /\ e # <<>>
                          THEN validateEmail(e) ELSE emailValidation
  /\ UNCHANGED <<password, name, occupation, allowLocation, location,
                 locationError, error, success, loading, passwordValidation,
                 touched, route, geoSupported, posPending, geocodePending,
                 signupReq, navTimers, lsToken, ssToken, submits, signupPosts>>
  /\ SignupOnly

\* onChange of the password input and the real-time validation effect
SetPassword(p) ==
  /\ SignupMounted /\ ~loading
  /\ p # password
  /\ password' = p
  /\ passwordValidation' = IF touched.password /\ p # <<>>
                             THEN validatePassword(p) ELSE passwordValidation
  /\ UNCHANGED <<email, name, occupation, allowLocation, location,
                 locationError, error, success, loading, emailValidation,
                 touched, route, geoSupported, posPending, geocodePending,
                 signupReq, navTimers, lsToken, ssToken, submits, signupPosts>>
  /\ SignupOnly

\* onBlur of the email input and the effect its touched flag triggers
BlurEmail ==
  /\ SignupMounted /\ ~loading
  /\ ~touched.email
  /\ touched' = [touched EXCEPT !.email = TRUE]
  /\ emailValidation' = IF email # <<>>
                          THEN validateEmail(email) ELSE emailValidation
  /\ UNCHANGED <<email, password, name, occupation, allowLocation, location,
                 locationError, error, success, loading, passwordValidation,
                 route, geoSupported, posPending, geocodePending, signupReq,
                 navTimers, lsToken, ssToken, submits, signupPosts>>
  /\ SignupOnly

\* onBlur of the password input and the effect its touched flag triggers
BlurPassword ==
  /\ SignupMounted /\ ~loading
  /\ ~touched.password
  /\ touched' = [touched EXCEPT !.password = TRUE]
  /\ passwordValidation' = IF password # <<>>
                             THEN validatePassword(password)
                             ELSE passwordValidation
  /\ UNCHANGED <<email, password, name, occupation, allowLocation, location,
                 locationError, error, success, loading, emailValidation,
                 route, geoSupported, posPending, geocodePending, signupReq,
                 navTimers, lsToken, ssToken, submits, signupPosts>>
  /\ SignupOnly

\* onChange of the name and occupation inputs
SetProfile(n, o) ==
  /\ SignupMounted /\ ~loading
  /\ <<n, o>> # <<name, occupation>>
  /\ name' = n
  /\ occupation' = o
  /\ UNCHANGED <<email, password, allowLocation, location, locationError,
                 error, success, loading, emailValidation, passwordValidation,
                 touched, route, geoSupported, posPending, geocodePending,
                 signupReq, navTimers, lsToken, ssToken, submits, signupPosts>>
  /\ SignupOnly

\* onChange of the location checkbox and the effect on [allowLocation]
SetAllowLocation ==
  /\ SignupMounted /\ ~loading
  /\ posPending + Len(geocodePending) < MaxGeo \/ allowLocation
  /\ allowLocation' = ~allowLocation
  /\ LocationEffect(~allowLocation)
  /\ UNCHANGED <<email, password, name, occupation, location, error, success,
                 loading, emailValidation, passwordValidation, touched, route,
                 geoSupported, geocodePending, signupReq, navTimers, lsToken,
                 ssToken, submits, signupPosts>>
  /\ SignupOnly

\* getCurrentPosition's success callback, up to its fetch
PositionSuccess(c) ==
  /\ posPending > 0
  /\ posPending' = posPending - 1
  /\ geocodePending' = Append(geocodePending, c)
  /\ UNCHANGED <<email, password, name, occupation, allowLocation, location,
                 locationError, error, success, loading, emailValidation,
                 passwordValidation, touched, route, geoSupported, signupReq,
                 navTimers, lsToken, ssToken, submits, signupPosts>>
  /\ SignupOnly

\* getCurrentPosition's error callback
PositionError ==
  /\ posPending > 0
  /\ posPending' = posPending - 1
  /\ locationError' = "Location access denied. You can set it later in settings."
  /\ UNCHANGED <<email, password, name, occupation, allowLocation, location,
                 error, success, loading, emailValidation, passwordValidation,
                 touched, route, geoSupported, geocodePending, signupReq,
                 navTimers, lsToken, ssToken, submits, signupPosts>>
  /\ SignupOnly

\* the reverse-geocoding fetch answers with the address `addr`
GeocodeResolve(addr) ==
  /\ geocodePending # <<>>
  /\ geocodePending' = Tail(geocodePending)
  /\ location' = BuildLocation(Head(geocodePending), addr)
  /\ locationError' = ""
  /\ UNCHANGED <<email, password, name, occupation, allowLocation, error,
                 success, loading, emailValidation, passwordValidation,
                 touched, route, geoSupported, posPending, signupReq,
                 navTimers, lsToken, ssToken, submits, signupPosts>>
  /\ SignupOnly

\* the fetch or response.json() throws
GeocodeFail ==
  /\ geocodePending # <<>>
  /\ geocodePending' = Tail(geocodePending)
  /\ locationError' = "Could not determine location details"
  /\ UNCHANGED <<email, password, name, occupation, allowLocation, location,
                 error, success, loading, emailValidation, passwordValidation,
                 touched, route, geoSupported, posPending, signupReq,
                 navTimers, lsToken, ssToken, submits, signupPosts>>
  /\ SignupOnly

FixValidationErrors == "Please fix the validation errors before submitting"

\* submit without its final validation (a defect the claims must detect)
submit_NoFinalValidation ==
  /\ SignupMounted /\ ~loading /\ ~success
  /\ submits < MaxSubmits
  /\ submits' = submits + 1
  /\ touched' = [email |-> TRUE, password |-> TRUE]
  /\ emailValidation' = validateEmail(email)
  /\ passwordValidation' = validatePassword(password)
  /\ error' = NullStr
  /\ loading' = TRUE
  /\ signupReq' = Append(signupReq, SignupPayload)
  /\ signupPosts' = signupPosts + 1
  /\ UNCHANGED <<email, password, name, occupation, allowLocation, location,
                 locationError, success, route, geoSupported, posPending,
                 geocodePending, navTimers, lsToken, ssToken>>
  /\ SignupOnly

\* submit refusing to go on while no location is recorded (a defect the
\* claims must detect)
submit_WaitsForLocation ==
  /\ SignupMounted /\ ~loading /\ ~success
  /\ submits < MaxSubmits
  /\ submits' = submits + 1
  /\ touched' = [email |-> TRUE, password |-> TRUE]
  /\ emailValidation' = validateEmail(email)
  /\ passwordValidation' = validatePassword(password)
  /\ IF \/ ~validateEmail(email).isValid \/ ~validatePassword(password).isValid
        \/ (allowLocation /\ location = NullRec)
       THEN /\ error' = FixValidationErrors
            /\ UNCHANGED <<loading, signupReq, signupPosts>>
       ELSE /\ error' = NullStr
            /\ loading' = TRUE
            /\ signupReq' = Append(signupReq, SignupPayload)
            /\ signupPosts' = signupPosts + 1
  /\ UNCHANGED <<email, password, name, occupation, allowLocation, location,
                 locationError, success, route, geoSupported, posPending,
                 geocodePending, navTimers, lsToken, ssToken>>
  /\ SignupOnly

\* submit, up to its await of the POST (the button is disabled while
\* loading or after success)
submit ==
  /\ SignupMounted /\ ~loading /\ ~success
  /\ submits < MaxSubmits
  /\ submits' = submits + 1
  /\ touched' = [email |-> TRUE, password |-> TRUE]
  /\ emailValidation' = validateEmail(email)
  /\ passwordValidation' = validatePassword(password)
  /\ IF ~validateEmail(email).isValid \/ ~validatePassword(password).isValid
       THEN /\ error' = FixValidationErrors
            /\ UNCHANGED <<loading, signupReq, signupPosts>>
       ELSE /\ error' = NullStr
            /\ loading' = TRUE
            /\ signupReq' = Append(signupReq, SignupPayload)
            /\ signupPosts' = signupPosts + 1
  /\ UNCHANGED <<email, password, name, occupation, allowLocation, location,
                 locationError, success, route, geoSupported, posPending,
                 geocodePending, navTimers, lsToken, ssToken>>
  /\ SignupOnly

\* the success branch without the removal of the stale tokens (a defect the
\* claims must detect)
SignupResolve_KeepsTokens ==
  /\ signupReq # <<>>
  /\ signupReq' = Tail(signupReq)
  /\ success' = TRUE
  /\ navTimers' = Append(navTimers, Head(signupReq).email)
  /\ loading' = FALSE
  /\ UNCHANGED <<email, password, name, occupation, allowLocation, location,
                 locationError, error, emailValidation, passwordValidation,
                 touched, route, geoSupported, posPending, geocodePending,
                 submits, signupPosts, lsToken, ssToken>>
  /\ SignupOnly

\* the POST /auth/signup resolves: the rest of the try block and finally
SignupResolve ==
  /\ signupReq # <<>>
  /\ signupReq' = Tail(signupReq)
  /\ success' = TRUE
  /\ lsToken' = NoItem
  /\ ssToken' = NoItem
  /\ navTimers' = Append(navTimers, Head(signupReq).email)
  /\ loading' = FALSE
  /\ UNCHANGED <<email, password, name, occupation, allowLocation, location,
                 locationError, error, emailValidation, passwordValidation,
                 touched, route, geoSupported, posPending, geocodePending,
                 submits, signupPosts>>
  /\ SignupOnly

\* the POST /auth/signup rejects: the catch block and finally
SignupReject(detail) ==
  /\ signupReq # <<>>
  /\ signupReq' = Tail(signupReq)
  /\ error' = IF detail # "" THEN detail
              ELSE "Signup failed. Please try again."
  /\ loading' = FALSE
  /\ UNCHANGED <<email, password, name, occupation, allowLocation, location,
                 locationError, success, emailValidation, passwordValidation,
                 touched, route, geoSupported, posPending, geocodePending,
                 navTimers, lsToken, ssToken, submits, signupPosts>>
  /\ SignupOnly

\* the 1500 ms timer set after a successful signup fires
NavTimerFire ==
  /\ navTimers # <<>>
  /\ navTimers' = Tail(navTimers)
  /\ route' = [path |-> "/verify-email", email |-> Head(navTimers)]
  /\ UNCHANGED <<email, password, name, occupation, allowLocation, location,
                 locationError, error, success, loading, emailValidation,
                 passwordValidation, touched, geoSupported, posPending,
                 geocodePending, signupReq, lsToken, ssToken, submits,
                 signupPosts>>
  /\ SignupOnly

\* the "Sign in" link of the form
SignupGoToLogin ==
  /\ SignupMounted /\ ~loading
  /\ route' = [path |-> "/login", email |-> <<>>]
  /\ UNCHANGED <<email, password, name, occupation, allowLocation, location,
                 locationError, error, success, loading, emailValidation,
                 passwordValidation, touched, geoSupported, posPending,
                 geocodePending, signupReq, navTimers, lsToken, ssToken,
                 submits, signupPosts>>
  /\ SignupOnly

NextSignup ==
  \/ SignupMount
  \/ \E e \in Emails : SetEmail(e)
  \/ \E p \in Passwords : SetPassword(p)
  \/ BlurEmail
  \/ BlurPassword
  \/ \E n \in Names, o \in Occupations : SetProfile(n, o)
  \/ SetAllowLocation
  \/ \E c \in Coords : PositionSuccess(c)
  \/ PositionError
  \/ \E a \in Addresses : GeocodeResolve(a)
  \/ GeocodeFail
  \/ submit
  \/ SignupResolve
  \/ \E d \in SignupDetails : SignupReject(d)
  \/ NavTimerFire
  \/ SignupGoToLogin

SpecSignup == InitSignup /\ [][NextSignup]_vars

-----------------------------------------------------------------------------
(* Claims about Signup.                                                    *)

BothValid ==
  validateEmail(email).isValid /\ validatePassword(password).isValid

\* C1: a submit with an invalid email or an invalid password issues no
\* POST /auth/signup and only sets the 'fix the validation errors' error; a
\* submit with both valid issues exactly one POST /auth/signup; no POST is
\* issued by anything but a submit.
C1_SubmitPostsOnlyWhenValid ==
  [][ /\ (submits' # submits) =>
           IF BothValid
             THEN /\ signupPosts' = signupPosts + 1
                  /\ Len(signupReq') = Len(signupReq) + 1
             ELSE /\ signupPosts' = signupPosts
                  /\ signupReq' = signupReq
                  /\ error' = FixValidationErrors
                  /\ UNCHANGED <<loading, success, route, navTimers,
                                 lsToken, ssToken>>
      /\ (signupPosts' # signupPosts) => (submits' = submits + 1)
    ]_vars

\* C1 witness: a valid submit has issued its one POST and a later submit
\* with an invalid field was blocked with the validation error.
C1_Witness ==
  /\ submits >= 2
  /\ signupPosts = 1
  /\ error = FixValidationErrors
  /\ ~BothValid

-----------------------------------------------------------------------------
(* EmailVerifiedPage: bounds and inputs.                                   *)

\* runs of the verification effect on one mounted page (the mount run and
\* the re-runs a development build or a re-mounted effect adds)
MaxEffectRuns == 3
\* interval callbacks considered in one behaviour
MaxTicks == 4

\* searchParams.get('token'): null, the empty string, or a token
Tokens == { NullStr, "", "t1" }
\* response.data.status of GET /auth/verify-email
VerifyStatuses == { "success", "already_verified", "pending" }
\* error.response?.data?.detail of a failed verification; "" when none
VerifyDetails == { "", "Token expired" }

-----------------------------------------------------------------------------
(* EmailVerifiedPage: the component.                                       *)

CountdownStart == 3

\* !token
Falsy(t) == t = NullStr \/ t = ""

\* a step of the verify-email page leaves the other components alone
VerifyOnly == UNCHANGED <<signupVars, chatVars, appVars, resendVars>>

InitVerify ==
  /\ SignupIdle
  /\ ResendIdle
  /\ ChatIdle
  /\ AppIdle
  /\ token \in Tokens
  /\ verificationAttempted = FALSE
  /\ status = "verifying"
  /\ message = ""
  /\ verifiedEmail = ""
  /\ countdown = CountdownStart
  /\ mounted = TRUE
  /\ navTo = NullStr
  /\ verifyReq = 0
  /\ timers = 0
  /\ effectRuns = 0
  /\ verifyCalls = 0
  /\ timerTicks = 0
  /\ timerNavs = 0
  /\ verifyAnswer = NoAnswer

\* verifyEmail without its duplicate-call guard (a defect the claims must
\* detect)
verifyEmail_NoGuard ==
  /\ verificationAttempted' = TRUE
  /\ IF Falsy(token)
       THEN /\ status' = "error"
            /\ message' = "Invalid verification link. Token is missing."
            /\ UNCHANGED <<verifyReq, verifyCalls>>
       ELSE /\ verifyReq' = verifyReq + 1
            /\ verifyCalls' = verifyCalls + 1
            /\ UNCHANGED <<status, message>>

\* verifyEmail, up to its await
verifyEmail ==
  IF verificationAttempted
    THEN UNCHANGED <<verificationAttempted, status, message, verifyReq,
                     verifyCalls>>
    ELSE /\ verificationAttempted' = TRUE
         /\ IF Falsy(token)
              THEN /\ status' = "error"
                   /\ message' = "Invalid verification link. Token is missing."
                   /\ UNCHANGED <<verifyReq, verifyCalls>>
              ELSE /\ verifyReq' = verifyReq + 1
                   /\ verifyCalls' = verifyCalls + 1
                   /\ UNCHANGED <<status, message>>

\* useEffect(..., [token]) runs: at mount, and again whenever the effect is
\* re-run on the mounted page
VerifyEffect ==
  /\ mounted
  /\ effectRuns < MaxEffectRuns
  /\ effectRuns' = effectRuns + 1
  /\ verifyEmail
  /\ UNCHANGED <<token, verifiedEmail, countdown, mounted, navTo, timers,
                 timerTicks, timerNavs, verifyAnswer>>
  /\ VerifyOnly

\* the success handler with no branch for an unexpected status (a defect
\* the claims must detect)
VerifyResolve_NoElse(st) ==
  /\ verifyReq > 0
  /\ verifyReq' = verifyReq - 1
  /\ verifyAnswer' = Answer("resolved", st)
  /\ IF st = "success"
       THEN /\ status' = IF mounted THEN "success" ELSE status
            /\ message' = IF mounted THEN "Email verified" ELSE message
            /\ verifiedEmail' = IF mounted THEN "u@x" ELSE verifiedEmail
            /\ timers' = timers + 1
     ELSE IF st = "already_verified"
       THEN /\ status' = IF mounted THEN "already_verified" ELSE status
            /\ message' = IF mounted THEN "Already verified" ELSE message
            /\ UNCHANGED <<verifiedEmail, timers>>
       ELSE /\ status' = IF mounted THEN "already_verified" ELSE status
            /\ message' = IF mounted THEN "Already verified" ELSE message
            /\ UNCHANGED <<verifiedEmail, timers>>
  /\ UNCHANGED <<token, verificationAttempted, countdown, mounted, navTo,
                 effectRuns, verifyCalls, timerTicks, timerNavs>>
  /\ VerifyOnly

\* the GET resolves (with the 300 ms delay elapsed): the rest of the try
\* block.  State setters of an unmounted page have no effect; setInterval has.
VerifyResolve(st) ==
  /\ verifyReq > 0
  /\ verifyReq' = verifyReq - 1
  /\ verifyAnswer' = Answer("resolved", st)
  /\ IF st = "success"
       THEN /\ status' = IF mounted THEN "success" ELSE status
            /\ message' = IF mounted THEN "Email verified" ELSE message
            /\ verifiedEmail' = IF mounted THEN "u@x" ELSE verifiedEmail
            /\ timers' = timers + 1
     ELSE IF st = "already_verified"
       THEN /\ status' = IF mounted THEN "already_verified" ELSE status
            /\ message' = IF mounted THEN "Already verified" ELSE message
            /\ UNCHANGED <<verifiedEmail, timers>>
       ELSE /\ status' = IF mounted THEN "error" ELSE status
            /\ message' = IF mounted THEN "Unexpected response from server."
                          ELSE message
            /\ UNCHANGED <<verifiedEmail, timers>>
  /\ UNCHANGED <<token, verificationAttempted, countdown, mounted, navTo,
                 effectRuns, verifyCalls, timerTicks, timerNavs>>
  /\ VerifyOnly

\* the GET rejects: the catch block
VerifyReject(detail) ==
  /\ verifyReq > 0
  /\ verifyReq' = verifyReq - 1
  /\ verifyAnswer' = Answer("rejected", "")
  /\ status' = IF mounted THEN "error" ELSE status
  /\ message' = IF ~mounted THEN message
                ELSE IF detail # "" THEN detail
                ELSE "Verification failed. The link may be invalid or expired."
  /\ UNCHANGED <<token, verificationAttempted, verifiedEmail, countdown,
                 mounted, navTo, timers, effectRuns, verifyCalls, timerTicks,
                 timerNavs>>
  /\ VerifyOnly

\* The interval callback: setCountdown with its updater.  On a mounted page
\* the updater runs.  Nothing clears the interval when the page unmounts (the
\* function verifyEmail returns is the result of an async function, not the
\* effect's cleanup), so the callback goes on firing; whether the updater of
\* an unmounted component is still evaluated is left to the library: `runs`.
TimerTick(runs) ==
  /\ timers > 0
  /\ timerTicks < MaxTicks
  /\ timerTicks' = timerTicks + 1
  /\ mounted => runs
  /\ IF runs /\ countdown <= 1
       THEN /\ timers' = timers - 1
            /\ navTo' = "/login"
            /\ timerNavs' = timerNavs + 1
            /\ mounted' = FALSE
            /\ countdown' = IF mounted THEN 0 ELSE countdown
       ELSE /\ countdown' = IF runs /\ mounted THEN countdown - 1
                            ELSE countdown
            /\ UNCHANGED <<timers, navTo, timerNavs, mounted>>
  /\ UNCHANGED <<token, verificationAttempted, status, message, verifiedEmail,
                 verifyReq, effectRuns, verifyCalls, verifyAnswer>>
  /\ VerifyOnly

\* the buttons of the page: 'Go to Login Now' / 'Go to Login' in the success
\* and already-verified states, 'Request New Link' and 'Sign up' in the error
\* state; navigating away unmounts the page
VerifyNavigate(to) ==
  /\ mounted
  /\ \/ status \in {"success", "already_verified"} /\ to = "/login"
     \/ status = "error" /\ to \in {"/verify-email", "/signup"}
  /\ navTo' = to
  /\ mounted' = FALSE
  /\ UNCHANGED <<token, verificationAttempted, status, message, verifiedEmail,
                 countdown, verifyReq, timers, effectRuns, verifyCalls,
                 timerTicks, timerNavs, verifyAnswer>>
  /\ VerifyOnly

NextVerify ==
  \/ VerifyEffect
  \/ \E st \in VerifyStatuses : VerifyResolve(st)
  \/ \E d \in VerifyDetails : VerifyReject(d)
  \/ \E runs \in BOOLEAN : TimerTick(runs)
  \/ \E to \in {"/login", "/verify-email", "/signup"} : VerifyNavigate(to)

SpecVerify == InitVerify /\ [][NextVerify]_vars

-----------------------------------------------------------------------------
(* Claims about EmailVerifiedPage.                                         *)

\* C2: one mounted verify-email page issues at most one GET
\* /auth/verify-email however often its effect runs; with no token in the
\* query string it issues none, and once the effect has run the status is
\* 'error' with the missing-token message.
C2_AtMostOneVerifyCall ==
  /\ verifyCalls <= 1
  /\ Falsy(token) =>
       /\ verifyCalls = 0
       /\ effectRuns >= 1 =>
            /\ status = "error"
            /\ message = "Invalid verification link. Token is missing."

\* C2 witness: the effect has run again while the single call is pending.
C2_Witness ==
  /\ effectRuns >= 2
  /\ verifyCalls = 1
  /\ verifyReq = 1
  /\ status = "verifying"

\* C3 (as claimed): once the page is unmounted the countdown interval never
\* ticks again and never navigates to /login.
C3_TimerCancelledOnUnmount ==
  [][ ~mounted => (timerTicks' = timerTicks /\ timerNavs' = timerNavs) ]_vars

-----------------------------------------------------------------------------
(* Chat and Sidebar: bounds and inputs.                                    *)

\* user operations (clicks and sends) considered in one behaviour
MaxOps == 2

\* titles a rename prompt returns
Titles == { "New chat", "A" }
\* project ids of the backend; NullStr is project_id null
ProjectIds == { "p1" }
\* what MessageInput hands to send: trimmed text and the attached file's
\* name, "" standing for no text / no file, never both empty
Sends ==
  { [text |-> "hi", file |-> ""],
    [text |-> "", file |-> "f.txt"] }

\* the thread a previous session may have left on the backend and in storage
OldThread == [id |-> 1, title |-> "New chat", project_id |-> NullStr]
ProjectThread == [id |-> 2, title |-> "A", project_id |-> "p1"]

\* GET /projects
SrvProjects == << [id |-> "p1", name |-> "P"] >>

\* GET /threads/{id}/messages: the histories the backend may answer with
Histories ==
  { <<>>,
    << [type |-> "text", sender |-> "user", content |-> "q", filename |-> ""],
       [type |-> "file", sender |-> "user", content |-> "", filename |-> "h.txt"],
       [type |-> "text", sender |-> "memory", content |-> "a", filename |-> ""] >> }

-----------------------------------------------------------------------------
(* Chat and Sidebar: helpers.                                              *)

\* if (saved): getItem returned a non-empty text
Truthy(saved) == saved # ItemAbsent
\* JSON.parse(saved) does not throw
Parses(saved) == "json" \in DOMAIN saved
\* JSON.parse(saved)
JSONparse(saved) == saved.json

\* entries of the displayed list; tid is a history field: the thread the
\* entry was fetched from or sent to
UserText(text, tid) == [role |-> "user", content |-> text, tid |-> tid]
UserFile(filename, tid) ==
  [role |-> "user", type |-> "file", filename |-> filename, tid |-> tid]
AssistantText(content, tid) ==
  [role |-> "assistant", content |-> content, tid |-> tid]

\* the map of loadMessages, lines 41-48
MapMessages(data, tid) ==
  [i \in 1..Len(data) |->
     IF data[i].type = "file"
       THEN UserFile(data[i].filename, tid)
       ELSE [role |-> IF data[i].sender = "user" THEN "user" ELSE "assistant",
             content |-> data[i].content, tid |-> tid]]

\* setMessages(ms) of loadMessages done wrongly, as an append (a defect the
\* claims must detect)
LoadedMessages_Append(old, ms) == old \o ms

\* setMessages(ms) of loadMessages: the new list given the old one
LoadedMessages(old, ms) == ms

\* the optimistic entries of send, lines 132-138
OptimisticEntries(text, file, tid) ==
  (IF text # "" THEN <<UserText(text, tid)>> ELSE <<>>)
    \o (IF file # "" THEN <<UserFile(file, tid)>> ELSE <<>>)

\* the text of the inline error entry (the source puts a cross mark before it)
ChatErrorText == "Error processing your message."

\* the catch block of send done wrongly: it takes the optimistic entries
\* back (a defect the claims must detect)
ChatFailedMessages_Rollback(old, r) ==
  Append(SubSeq(old, 1, Len(old) - Len(OptimisticEntries(r.text, r.file, r.t.id))),
         AssistantText(ChatErrorText, r.t.id))

\* the catch block of send, lines 156-161: the new list given the old one
ChatFailedMessages(old, r) == Append(old, AssistantText(ChatErrorText, r.t.id))

\* send without the reuse of the stored thread (a defect the claims must
\* detect)
SendThread_NoReuse(th, saved) == th

\* the thread send settles on before it considers creating one, lines
\* 111-122
SendThread(th, saved) ==
  IF th # NullRec THEN th
  ELSE IF Truthy(saved) /\ Parses(saved) THEN JSONparse(saved)
  ELSE NullRec

\* selectThread without its write to localStorage (a defect the claims must
\* detect)
SelectStore_Skip(old, t) == old

\* localStorage after selectThread(t), line 55
SelectStore(old, t) == JSONstringify(t)

\* the backend's threads, by id
SrvHas(id) == \E x \in srvThreads : x.id = id

RECURSIVE SortById(_)
\* GET /threads: the backend's threads as a list
SortById(set) ==
  IF set = {} THEN <<>>
  ELSE LET m == CHOOSE x \in set : \A y \in set : x.id <= y.id
       IN <<m>> \o SortById(set \ {m})

IsProjectThread(t) == t.project_id # NullStr
IsPersonalThread(t) == t.project_id = NullStr

\* lines 93-103 of load: the personal threads of the answer
PersonalOf(data) == SelectSeq(data, IsPersonalThread)

\* lines 93-103 of load: the threads of the answer by project
ByProjectOf(data) ==
  [p \in {data[i].project_id : i \in {j \in 1..Len(data) : IsProjectThread(data[j])}}
     |-> SelectSeq(data, LAMBDA t : t.project_id = p)]

\* the threads the sidebar shows
SidebarThreads ==
  {personalThreads[i] : i \in 1..Len(personalThreads)}
    \cup UNION {{projectThreads[p][i] : i \in 1..Len(projectThreads[p])}
                  : p \in DOMAIN projectThreads}

\* a request in flight: what the handler that awaits it captured (t, title,
\* text, file, sel), the backend's answer (ok, data), and a history field:
\* whether the displayed list (for a load of the Sidebar: the sidebar's
\* lists, by a load issued later) was replaced since the request was issued
Request(kind, t, title, text, file, sel, ok, data) ==
  [kind |-> kind, t |-> t, title |-> title, text |-> text, file |-> file,
   sel |-> sel, ok |-> ok, data |-> data, replaced |-> FALSE]

RemoveAt(seq, i) == SubSeq(seq, 1, i - 1) \o SubSeq(seq, i + 1, Len(seq))

\* the list has been replaced: remember it in the chat requests in flight
MarkReplaced(seq) ==
  [i \in 1..Len(seq) |->
     IF seq[i].kind = "chat" THEN [seq[i] EXCEPT !.replaced = TRUE] ELSE seq[i]]

\* load() of the Sidebar: the two GETs, answered from the backend's state;
\* whether the answer arrives is settled when it is delivered
SidebarLoadRequest(threads) ==
  Request("sbLoad", NullRec, "", "", "", FALSE, TRUE,
          [projects |-> SrvProjects, threads |-> SortById(threads)])

\* what a step did: the handler or continuation that ran (op), the alert it
\* raised ("" for none), whether it dispatched 'refresh-threads' (signal),
\* the thread ids it issued GET /threads/{id}/messages for (gets), and the
\* request whose answer it handled (req); for send, req is the selection and
\* the stored item it read; for a reload, the selection the page had, which
\* the mount that follows hands on
Event(op, alert, signal, gets, req) ==
  [op |-> op, alert |-> alert, signal |-> signal, gets |-> gets, req |-> req]

SrvRename(id, title) ==
  {IF x.id = id THEN [x EXCEPT !.title = title] ELSE x : x \in srvThreads}
SrvDelete(id) == {x \in srvThreads : x.id # id}

\* a step of Chat leaves the other components alone
ChatOnly == UNCHANGED <<signupVars, verifyVars, appVars, resendVars>>

Init ==
  /\ SignupIdle
  /\ ResendIdle
  /\ VerifyIdle
  /\ AppIdle
  /\ thread = NullRec
  /\ messages = <<>>
  /\ projects = <<>>
  /\ personalThreads = <<>>
  /\ projectThreads = <<>>
  /\ chatMounted = FALSE
  /\ lastThread \in {ItemAbsent, ItemGarbage, JSONstringify(NullRec),
                     JSONstringify(OldThread)}
  /\ srvThreads \in {{}, {OldThread, ProjectThread}}
  /\ nextId = 3
  /\ pending = <<>>
  /\ ops = 0
  /\ ev = NoEvent

-----------------------------------------------------------------------------
(* Chat and Sidebar: the components.                                       *)
(* A request is answered by the backend when it is issued (the answer is   *)
(* kept in the request) and the answer reaches the client in a later step, *)
(* in any order.                                                           *)

\* The mount effects: the Sidebar's first load() and Chat's restore of the
\* last thread (lines 26-35).
ChatMount ==
  /\ ~chatMounted
  /\ chatMounted' = TRUE
  /\ thread' = IF Truthy(lastThread) /\ Parses(lastThread)
                 THEN JSONparse(lastThread) ELSE thread
  /\ pending' = Append(pending,
                            SidebarLoadRequest(srvThreads))
  /\ ev' = Event("mount", "", FALSE, {},
                 IF ev.op = "reload" THEN ev.req ELSE NullRec)
  /\ UNCHANGED <<messages, projects, personalThreads, projectThreads,
                 lastThread, srvThreads, nextId, ops>>
  /\ ChatOnly

\* the sidebar's lists have been replaced by the answer of the load at
\* position i: remember it in the loads issued before it that are in flight
MarkOvertaken(seq, i) ==
  [j \in 1..Len(seq) |->
     IF j < i /\ seq[j].kind = "sbLoad"
       THEN [seq[j] EXCEPT !.replaced = TRUE] ELSE seq[j]]

\* load() resolves (ok) or rejects; the setters run for whichever answer
\* arrives, in the order of arrival
SidebarLoadResolve(i, ok) ==
  /\ i \in 1..Len(pending)
  /\ pending[i].kind = "sbLoad"
  /\ pending' = IF ok THEN RemoveAt(MarkOvertaken(pending, i), i)
                       ELSE RemoveAt(pending, i)
  /\ IF ok
       THEN /\ projects' = pending[i].data.projects
            /\ personalThreads' = PersonalOf(pending[i].data.threads)
            /\ projectThreads' = ByProjectOf(pending[i].data.threads)
       ELSE UNCHANGED <<projects, personalThreads, projectThreads>>
  /\ ev' = Event(IF ok THEN "sidebarLoaded" ELSE "sidebarLoadFailed", "",
                 FALSE, {}, pending[i])
  /\ UNCHANGED <<thread, messages, chatMounted, lastThread, srvThreads,
                 nextId, ops>>
  /\ ChatOnly

\* selectThread(t) for a thread of the sidebar, up to the await in
\* loadMessages
selectThread(t) ==
  /\ chatMounted /\ ops < MaxOps
  /\ t \in SidebarThreads
  /\ ops' = ops + 1
  /\ thread' = t
  /\ lastThread' = SelectStore(lastThread, t)
  /\ \E ok \in BOOLEAN : \E h \in Histories :
       /\ ok => SrvHas(t.id)
       /\ ~ok => h = <<>>
       /\ pending' = Append(pending,
                            Request("load", t, "", "", "", FALSE, ok, h))
  /\ ev' = Event("selectThread", "", FALSE, {t.id}, NullRec)
  /\ UNCHANGED <<messages, projects, personalThreads, projectThreads,
                 chatMounted, srvThreads, nextId>>
  /\ ChatOnly

\* the GET of loadMessages resolves (the map and setMessages) or rejects
LoadResolve(i) ==
  /\ i \in 1..Len(pending)
  /\ pending[i].kind = "load"
  /\ IF pending[i].ok
       THEN /\ messages' = LoadedMessages(messages,
                             MapMessages(pending[i].data, pending[i].t.id))
            /\ pending' = MarkReplaced(RemoveAt(pending, i))
            /\ ev' = Event("loaded", "", FALSE, {}, pending[i])
       ELSE /\ pending' = RemoveAt(pending, i)
            /\ ev' = Event("loadFailed", "", FALSE, {}, pending[i])
            /\ UNCHANGED messages
  /\ UNCHANGED <<thread, projects, personalThreads, projectThreads,
                 chatMounted, lastThread, srvThreads, nextId, ops>>
  /\ ChatOnly

\* newPersonal(projectId), up to its await of POST /threads
newPersonal(projectId) ==
  /\ chatMounted /\ ops < MaxOps
  /\ \/ projectId = NullStr
     \/ \E k \in 1..Len(projects) : projects[k].id = projectId
  /\ ops' = ops + 1
  /\ \E ok \in BOOLEAN :
       LET created == [id |-> nextId, title |-> "New chat",
                       project_id |-> projectId]
       IN /\ srvThreads' = IF ok THEN srvThreads \cup {created} ELSE srvThreads
          /\ nextId' = IF ok THEN nextId + 1 ELSE nextId
          /\ pending' = Append(pending,
                          Request("new", NullRec, "", "", "", FALSE, ok,
                                  IF ok THEN created ELSE NullRec))
  /\ ev' = Event("newPersonal", "", FALSE, {}, NullRec)
  /\ UNCHANGED <<thread, messages, projects, personalThreads, projectThreads,
                 chatMounted, lastThread>>
  /\ ChatOnly

\* newPersonal after its await: the new thread is selected and stored, the
\* list emptied and 'refresh-threads' dispatched, which the Sidebar's
\* listener answers with load()
NewResolve(i) ==
  /\ i \in 1..Len(pending)
  /\ pending[i].kind = "new"
  /\ IF pending[i].ok
       THEN /\ thread' = pending[i].data
            /\ lastThread' = JSONstringify(pending[i].data)
            /\ messages' = <<>>
            /\ pending' = Append(MarkReplaced(RemoveAt(pending, i)),
                            SidebarLoadRequest(srvThreads))
            /\ ev' = Event("newCreated", "", TRUE, {}, pending[i])
       ELSE /\ pending' = RemoveAt(pending, i)
            /\ ev' = Event("newFailed", "", FALSE, {}, pending[i])
            /\ UNCHANGED <<thread, lastThread, messages>>
  /\ UNCHANGED <<projects, personalThreads, projectThreads, chatMounted,
                 srvThreads, nextId, ops>>
  /\ ChatOnly

\* renameChat without its first line: reading thread.title of null throws
\* and no alert is raised (a defect the claims must detect)
renameChat_NoThreadTest(newTitle) ==
  /\ chatMounted /\ ops < MaxOps
  /\ ops' = ops + 1
  /\ IF thread = NullRec
       THEN /\ ev' = Event("renameChat", "", FALSE, {}, NullRec)
            /\ UNCHANGED <<pending, srvThreads>>
       ELSE /\ newTitle # thread.title
            /\ \E ok \in BOOLEAN :
                 /\ ok => SrvHas(thread.id)
                 /\ srvThreads' = IF ok THEN SrvRename(thread.id, newTitle)
                                  ELSE srvThreads
                 /\ pending' = Append(pending,
                                 Request("rename", thread, newTitle, "", "",
                                         FALSE, ok, NullRec))
            /\ ev' = Event("renameChat", "", FALSE, {}, NullRec)
  /\ UNCHANGED <<thread, messages, projects, personalThreads, projectThreads,
                 chatMounted, lastThread, nextId>>
  /\ ChatOnly

\* renameChat with the title the prompt returned, up to its await of the PUT
renameChat(newTitle) ==
  /\ chatMounted /\ ops < MaxOps
  /\ ops' = ops + 1
  /\ IF thread = NullRec
       THEN /\ ev' = Event("renameChat", "No chat selected", FALSE, {}, NullRec)
            /\ UNCHANGED <<pending, srvThreads>>
       ELSE /\ newTitle # thread.title
            /\ \E ok \in BOOLEAN :
                 /\ ok => SrvHas(thread.id)
                 /\ srvThreads' = IF ok THEN SrvRename(thread.id, newTitle)
                                  ELSE srvThreads
                 /\ pending' = Append(pending,
                                 Request("rename", thread, newTitle, "", "",
                                         FALSE, ok, NullRec))
            /\ ev' = Event("renameChat", "", FALSE, {}, NullRec)
  /\ UNCHANGED <<thread, messages, projects, personalThreads, projectThreads,
                 chatMounted, lastThread, nextId>>
  /\ ChatOnly

\* renameChat after its await, and its catch
RenameResolve(i) ==
  /\ i \in 1..Len(pending)
  /\ pending[i].kind = "rename"
  /\ pending' = RemoveAt(pending, i)
  /\ IF pending[i].ok
       THEN LET updated == [pending[i].t EXCEPT !.title = pending[i].title]
            IN /\ thread' = updated
               /\ lastThread' = JSONstringify(updated)
               /\ ev' = Event("renamed", "Chat renamed", FALSE, {}, pending[i])
       ELSE /\ ev' = Event("renameFailed", "Rename failed", FALSE, {}, pending[i])
            /\ UNCHANGED <<thread, lastThread>>
  /\ UNCHANGED <<messages, projects, personalThreads, projectThreads,
                 chatMounted, srvThreads, nextId, ops>>
  /\ ChatOnly

\* deleteChat, confirmed, up to its await of the DELETE
deleteChat ==
  /\ chatMounted /\ ops < MaxOps
  /\ ops' = ops + 1
  /\ IF thread = NullRec
       THEN /\ ev' = Event("deleteChat", "No chat selected", FALSE, {}, NullRec)
            /\ UNCHANGED <<pending, srvThreads>>
       ELSE /\ \E ok \in BOOLEAN :
                 /\ ok => SrvHas(thread.id)
                 /\ srvThreads' = IF ok THEN SrvDelete(thread.id)
                                  ELSE srvThreads
                 /\ pending' = Append(pending,
                                 Request("delete", thread, "", "", "", FALSE,
                                         ok, NullRec))
            /\ ev' = Event("deleteChat", "", FALSE, {}, NullRec)
  /\ UNCHANGED <<thread, messages, projects, personalThreads, projectThreads,
                 chatMounted, lastThread, nextId>>
  /\ ChatOnly

\* deleteChat whose catch clears the selection as the success branch does
\* (a defect the claims must detect)
DeleteResolve_ClearsOnFailure(i) ==
  /\ i \in 1..Len(pending)
  /\ pending[i].kind = "delete"
  /\ thread' = NullRec
  /\ messages' = <<>>
  /\ lastThread' = ItemAbsent
  /\ pending' = MarkReplaced(RemoveAt(pending, i))
  /\ ev' = IF pending[i].ok
             THEN Event("deleted", "Chat deleted", FALSE, {}, pending[i])
             ELSE Event("deleteFailed", "Delete failed", FALSE, {}, pending[i])
  /\ UNCHANGED <<projects, personalThreads, projectThreads, chatMounted,
                 srvThreads, nextId, ops>>
  /\ ChatOnly

\* deleteChat after its await, and its catch
DeleteResolve(i) ==
  /\ i \in 1..Len(pending)
  /\ pending[i].kind = "delete"
  /\ IF pending[i].ok
       THEN /\ thread' = NullRec
            /\ messages' = <<>>
            /\ lastThread' = ItemAbsent
            /\ pending' = MarkReplaced(RemoveAt(pending, i))
            /\ ev' = Event("deleted", "Chat deleted", FALSE, {}, pending[i])
       ELSE /\ pending' = RemoveAt(pending, i)
            /\ ev' = Event("deleteFailed", "Delete failed", FALSE, {}, pending[i])
            /\ UNCHANGED <<thread, messages, lastThread>>
  /\ UNCHANGED <<projects, personalThreads, projectThreads, chatMounted,
                 srvThreads, nextId, ops>>
  /\ ChatOnly

\* the reply of POST /chat
Reply == "r"

\* send({text, file}) up to its first await: the choice of the thread, then
\* either POST /threads, or the optimistic entries and POST /chat
send(m) ==
  /\ chatMounted /\ ops < MaxOps
  /\ ops' = ops + 1
  /\ LET t == SendThread(thread, lastThread)
     IN /\ thread' = t
        /\ IF t = NullRec
             THEN /\ \E ok \in BOOLEAN :
                       LET created == [id |-> nextId, title |-> "New chat",
                                       project_id |-> NullStr]
                       IN /\ srvThreads' = IF ok THEN srvThreads \cup {created}
                                           ELSE srvThreads
                          /\ nextId' = IF ok THEN nextId + 1 ELSE nextId
                          /\ pending' = Append(pending,
                                Request("sendCreate", NullRec, "", m.text,
                                        m.file, FALSE, ok,
                                        IF ok THEN created ELSE NullRec))
                  /\ UNCHANGED messages
             ELSE /\ messages' = messages \o OptimisticEntries(m.text, m.file, t.id)
                  /\ \E ok \in BOOLEAN :
                       /\ ok => SrvHas(t.id)
                       /\ pending' = Append(pending,
                                Request("chat", t, "", m.text, m.file, FALSE,
                                        ok, IF ok THEN Reply ELSE ""))
                  /\ UNCHANGED <<srvThreads, nextId>>
  /\ ev' = Event("send", "", FALSE, {}, [thread |-> thread, saved |-> lastThread])
  /\ UNCHANGED <<projects, personalThreads, projectThreads, chatMounted,
                 lastThread>>
  /\ ChatOnly

\* send after the await of its POST /threads (lines 126-138 and the POST
\* /chat); a rejected POST /threads ends send
SendCreateResolve(i) ==
  /\ i \in 1..Len(pending)
  /\ pending[i].kind = "sendCreate"
  /\ IF pending[i].ok
       THEN LET t == pending[i].data
            IN /\ thread' = t
               /\ lastThread' = JSONstringify(t)
               /\ messages' = messages
                    \o OptimisticEntries(pending[i].text, pending[i].file, t.id)
               /\ \E ok \in BOOLEAN :
                    /\ ok => SrvHas(t.id)
                    /\ pending' = Append(RemoveAt(pending, i),
                           Request("chat", t, "", pending[i].text,
                                   pending[i].file, FALSE, ok,
                                   IF ok THEN Reply ELSE ""))
               /\ ev' = Event("sendCreated", "", FALSE, {}, pending[i])
       ELSE /\ pending' = RemoveAt(pending, i)
            /\ ev' = Event("sendCreateFailed", "", FALSE, {}, pending[i])
            /\ UNCHANGED <<thread, lastThread, messages>>
  /\ UNCHANGED <<projects, personalThreads, projectThreads, chatMounted,
                 srvThreads, nextId, ops>>
  /\ ChatOnly

\* send after the await of POST /chat: the reply, or the catch block
ChatResolve(i) ==
  /\ i \in 1..Len(pending)
  /\ pending[i].kind = "chat"
  /\ pending' = RemoveAt(pending, i)
  /\ IF pending[i].ok
       THEN /\ messages' = Append(messages,
                                  AssistantText(pending[i].data, pending[i].t.id))
            /\ ev' = Event("chatReplied", "", FALSE, {}, pending[i])
       ELSE /\ messages' = ChatFailedMessages(messages, pending[i])
            /\ ev' = Event("chatFailed", "", FALSE, {}, pending[i])
  /\ UNCHANGED <<thread, projects, personalThreads, projectThreads,
                 chatMounted, lastThread, srvThreads, nextId, ops>>
  /\ ChatOnly

\* the Sidebar's rename button on thread t, up to its await of the PUT
SidebarRename(t, newTitle) ==
  /\ chatMounted /\ ops < MaxOps
  /\ t \in SidebarThreads
  /\ newTitle # t.title
  /\ ops' = ops + 1
  /\ \E ok \in BOOLEAN :
       /\ ok => SrvHas(t.id)
       /\ srvThreads' = IF ok THEN SrvRename(t.id, newTitle) ELSE srvThreads
       /\ pending' = Append(pending,
                            Request("sbRename", t, newTitle, "", "", FALSE,
                                    ok, NullRec))
  /\ ev' = Event("sidebarRename", "", FALSE, {}, NullRec)
  /\ UNCHANGED <<thread, messages, projects, personalThreads, projectThreads,
                 chatMounted, lastThread, nextId>>
  /\ ChatOnly

\* the rename button after its await: load(); a rejected PUT ends the handler
SidebarRenameResolve(i) ==
  /\ i \in 1..Len(pending)
  /\ pending[i].kind = "sbRename"
  /\ IF pending[i].ok
       THEN pending' = Append(RemoveAt(pending, i),
                            SidebarLoadRequest(srvThreads))
       ELSE pending' = RemoveAt(pending, i)
  /\ ev' = Event("sidebarRenamed", "", FALSE, {}, pending[i])
  /\ UNCHANGED <<thread, messages, projects, personalThreads, projectThreads,
                 chatMounted, lastThread, srvThreads, nextId, ops>>
  /\ ChatOnly

\* the Sidebar's delete button on thread t, confirmed, up to its await of
\* the DELETE; the handler keeps the `selected` prop of the render it was
\* created in
SidebarDelete(t) ==
  /\ chatMounted /\ ops < MaxOps
  /\ t \in SidebarThreads
  /\ ops' = ops + 1
  /\ \E ok \in BOOLEAN :
       /\ ok => SrvHas(t.id)
       /\ srvThreads' = IF ok THEN SrvDelete(t.id) ELSE srvThreads
       /\ pending' = Append(pending,
                            Request("sbDelete", t, "", "", "",
                                    thread # NullRec /\ thread.id = t.id,
                                    ok, NullRec))
  /\ ev' = Event("sidebarDelete", "", FALSE, {}, NullRec)
  /\ UNCHANGED <<thread, messages, projects, personalThreads, projectThreads,
                 chatMounted, lastThread, nextId>>
  /\ ChatOnly

\* the delete button after its await: load(), then onSelectThread(null),
\* which is Chat's selectThread(null): setThread(null), setItem of
\* JSON.stringify(null), and loadMessages(null), which returns at once
SidebarDeleteResolve(i) ==
  /\ i \in 1..Len(pending)
  /\ pending[i].kind = "sbDelete"
  /\ IF pending[i].ok
       THEN /\ pending' = Append(RemoveAt(pending, i),
                            SidebarLoadRequest(srvThreads))
            /\ IF pending[i].sel
                 THEN /\ thread' = NullRec
                      /\ lastThread' = SelectStore(lastThread, NullRec)
                 ELSE UNCHANGED <<thread, lastThread>>
            /\ ev' = Event("sidebarDeleted", "", FALSE, {}, pending[i])
       ELSE /\ pending' = RemoveAt(pending, i)
            /\ ev' = Event("sidebarDeleteFailed", "", FALSE, {}, pending[i])
            /\ UNCHANGED <<thread, lastThread>>
  /\ UNCHANGED <<messages, projects, personalThreads, projectThreads,
                 chatMounted, srvThreads, nextId, ops>>
  /\ ChatOnly

\* The page is reloaded (the logout button, or the browser): every component
\* and every continuation of the page is gone, localStorage and the backend
\* stay.  The event keeps the selection the page had.
Reload ==
  /\ chatMounted /\ ops < MaxOps
  /\ ops' = ops + 1
  /\ chatMounted' = FALSE
  /\ thread' = NullRec
  /\ messages' = <<>>
  /\ projects' = <<>>
  /\ personalThreads' = <<>>
  /\ projectThreads' = <<>>
  /\ pending' = <<>>
  /\ ev' = Event("reload", "", FALSE, {}, thread)
  /\ UNCHANGED <<lastThread, srvThreads, nextId>>
  /\ ChatOnly

\* Another tab of the same origin runs the same Chat and writes the shared
\* 'last-thread' item: selectThread of a thread of the backend (line 55)
OtherTabSelects(t) ==
  /\ chatMounted /\ ops < MaxOps
  /\ t \in srvThreads
  /\ ops' = ops + 1
  /\ lastThread' = JSONstringify(t)
  /\ ev' = Event("otherTab", "", FALSE, {}, NullRec)
  /\ UNCHANGED <<thread, messages, projects, personalThreads, projectThreads,
                 chatMounted, srvThreads, nextId, pending>>
  /\ ChatOnly

\* the slots of the requests in flight, and the thread records a sidebar
\* can show
PendingSlots == 1..(MaxOps + 1)
ThreadRecords ==
  [id : 1..(MaxOps + 2), title : Titles, project_id : ProjectIds \cup {NullStr}]

Next ==
  \/ ChatMount
  \/ Reload
  \/ \E t \in ThreadRecords : selectThread(t)
  \/ \E p \in ProjectIds \cup {NullStr} : newPersonal(p)
  \/ \E n \in Titles : renameChat(n)
  \/ deleteChat
  \/ \E m \in Sends : send(m)
  \/ \E t \in ThreadRecords : \E n \in Titles : SidebarRename(t, n)
  \/ \E t \in ThreadRecords : SidebarDelete(t)
  \/ \E i \in PendingSlots : \E ok \in BOOLEAN : SidebarLoadResolve(i, ok)
  \/ \E i \in PendingSlots : LoadResolve(i)
  \/ \E i \in PendingSlots : NewResolve(i)
  \/ \E i \in PendingSlots : RenameResolve(i)
  \/ \E i \in PendingSlots : DeleteResolve(i)
  \/ \E i \in PendingSlots : SendCreateResolve(i)
  \/ \E i \in PendingSlots : ChatResolve(i)
  \/ \E i \in PendingSlots : SidebarRenameResolve(i)
  \/ \E i \in PendingSlots : SidebarDeleteResolve(i)

Spec == Init /\ [][Next]_vars

NextTabs == Next \/ \E t \in ThreadRecords : OtherTabSelects(t)

SpecTabs == Init /\ [][NextTabs]_vars

-----------------------------------------------------------------------------
(* Claims about Chat and Sidebar                                           *)

CountKind(seq, kind) == Cardinality({j \in 1..Len(seq) : seq[j].kind = kind})
Occurs(e, seq) == \E j \in 1..Len(seq) : seq[j] = e

\* C4: when the history fetched by selectThread(t) arrives, the displayed
\* list is exactly that history, mapped entry by entry, and holds nothing
\* of what was displayed before.  (A rejected GET leaves the list as it
\* was: no history was fetched.)
C4_SelectReplacesList ==
  [][ ev'.op = "loaded" =>
        /\ messages' = MapMessages(ev'.req.data, ev'.req.t.id)
        /\ Len(messages') = Len(ev'.req.data)
        /\ \A k \in 1..Len(messages) :
             ~Occurs(messages[k], MapMessages(ev'.req.data, ev'.req.t.id))
               => ~Occurs(messages[k], messages') ]_vars

\* a non-empty history has replaced a list that held the optimistic entry
\* of a send still in flight
C4_Witness ==
  /\ ev.op = "loaded"
  /\ ev.req.data # <<>>
  /\ messages = MapMessages(ev.req.data, ev.req.t.id)
  /\ \E i \in 1..Len(pending) :
       pending[i].kind = "chat" /\ pending[i].replaced

\* C5: whenever a thread becomes the selected one by a sidebar click, by the
\* restore at mount or by the resurrection in send, the step issues GET
\* /threads/{id}/messages for it, and the answer replaces the list.
C5_EverySelectionFetches ==
  [][ /\ (/\ ev'.op \in {"selectThread", "mount", "send"}
          /\ thread' # NullRec
          /\ thread' # thread)
        => thread'.id \in ev'.gets
      /\ ev'.op = "loaded"
        => messages' = MapMessages(ev'.req.data, ev'.req.t.id) ]_vars

\* C6: when a DELETE of the thread that is selected has succeeded, from the
\* header or from the sidebar, the selection is null and 'last-thread' is
\* absent.
C6_DeleteClearsSelection ==
  [][ (/\ ev'.op \in {"deleted", "sidebarDeleted"}
       /\ thread # NullRec
       /\ thread.id = ev'.req.t.id)
        => (thread' = NullRec /\ lastThread' = ItemAbsent) ]_vars

\* C7: send posts to the selected thread if there is one, else to the thread
\* stored under 'last-thread' if that parses to a thread, and issues POST
\* /threads only when there is neither; the created thread becomes the
\* selection and the stored last-thread, and the message is posted to it.
C7_SendThreadChoice ==
  [][ /\ ev'.op = "send" =>
           /\ Len(pending') = Len(pending) + 1
           /\ IF thread # NullRec
                THEN Last(pending').kind = "chat" /\ Last(pending').t = thread
                ELSE IF /\ Truthy(lastThread)
                        /\ Parses(lastThread)
                        /\ JSONparse(lastThread) # NullRec
                       THEN /\ Last(pending').kind = "chat"
                            /\ Last(pending').t = JSONparse(lastThread)
                       ELSE Last(pending').kind = "sendCreate"
      /\ ev'.op = "sendCreated" =>
           /\ thread' = ev'.req.data
           /\ lastThread' = JSONstringify(ev'.req.data)
           /\ Last(pending').kind = "chat"
           /\ Last(pending').t = ev'.req.data ]_vars

\* send, with no selection, has posted to the thread another tab stored
C7_Witness ==
  /\ ev.op = "send"
  /\ ev.req.thread = NullRec
  /\ Parses(ev.req.saved)
  /\ JSONparse(ev.req.saved) # NullRec
  /\ Last(pending).kind = "chat"
  /\ Last(pending).t = JSONparse(ev.req.saved)
  /\ thread = JSONparse(ev.req.saved)

C9_CreationSignalsRefresh ==
  [][ /\ ev'.op \in {"newCreated", "sendCreated"} => ev'.signal
      /\ ev'.signal
        => CountKind(pending', "sbLoad") = CountKind(pending, "sbLoad") + 1
    ]_vars

\* C10: between handler steps, a selected thread is the record stored under
\* 'last-thread', and the mount after a reload restores the selection the
\* page had.
C10_SelectionMirrored ==
  /\ (chatMounted /\ thread # NullRec) => lastThread = JSONstringify(thread)
  /\ (ev.op = "mount" /\ ev.req # NullRec) => thread = ev.req

\* a thread created in this session was selected, the page was reloaded,
\* and the mount has restored it
C10_Witness ==
  /\ ev.op = "mount"
  /\ ev.req # NullRec
  /\ ev.req.id > 2
  /\ thread = ev.req
  /\ lastThread = JSONstringify(thread)

-----------------------------------------------------------------------------
(* Further claims about Signup                                             *)

\* C13: when the page navigates to /verify-email, a POST /auth/signup has
\* succeeded, 'token' is already gone from localStorage and sessionStorage,
\* and the navigation state carries the email that was submitted; a failed
\* signup schedules no navigation.
C13_TokensClearedBeforeVerifyNav ==
  [][ /\ (route'.path = "/verify-email" /\ route.path # "/verify-email")
        => /\ success
           /\ lsToken = NoItem /\ ssToken = NoItem
           /\ lsToken' = NoItem /\ ssToken' = NoItem
           /\ navTimers # <<>> /\ route'.email = Head(navTimers)
      /\ (success' /\ ~success)
        => /\ signupReq # <<>>
           /\ navTimers' = Append(navTimers, Head(signupReq).email)
           /\ Head(signupReq).email = email
           /\ lsToken' = NoItem /\ ssToken' = NoItem
      /\ (signupReq # <<>> /\ signupReq' = Tail(signupReq) /\ ~success')
        => (navTimers' = navTimers /\ route' = route) ]_vars

\* the page has navigated with the submitted email, the tokens gone
C13_Witness ==
  /\ route.path = "/verify-email"
  /\ route.email # <<>>
  /\ validateEmail(route.email).isValid
  /\ success
  /\ lsToken = NoItem /\ ssToken = NoItem

\* the messages requestLocation can record
GeoErrors ==
  { "Geolocation not supported by your browser",
    "Location access denied. You can set it later in settings.",
    "Could not determine location details" }

\* C17: whatever the state of the location request (pending, recorded,
\* failed, unsupported), a submit with a valid email and password issues
\* the POST /auth/signup, with
\* the location fields exactly when a location is recorded; a geolocation or
\* geocoding failure records a locationError, leaves location as it was and
\* touches nothing submit depends on.
C17_GeolocationNeverBlocks ==
  [][ /\ (submits' = submits + 1 /\ BothValid)
        => /\ signupPosts' = signupPosts + 1
           /\ Last(signupReq').email = email
           /\ ("location_city" \in Last(signupReq').keys) = (location # NullRec)
      /\ (locationError' # locationError /\ locationError' # "")
        => /\ locationError' \in GeoErrors
           /\ location' = location
           /\ UNCHANGED <<error, loading, success, signupReq, signupPosts,
                          email, password>> ]_vars

\* a valid signup was posted without location while the position request
\* was still unanswered
C17_Witness ==
  /\ signupPosts > 0
  /\ signupReq # <<>>
  /\ ~("location_city" \in Head(signupReq).keys)
  /\ posPending > 0
  /\ location = NullRec
  /\ locationError = ""

-----------------------------------------------------------------------------
(* App (App.jsx), setAuth (api.js) and Login (Login.jsx)                   *)

\* bound on the login forms submitted in one behaviour
MaxLogins == 2

\* access tokens POST /auth/login returns
LoginTokens == { "tok", "new" }
\* what GET /auth/me returns
Users == { [id |-> 1] }
\* the template string of the Authorization header
Bearer(t) == [bearer |-> t]
\* if (token), for what getItem returns
TruthyToken(t) == t # NoItem /\ t # ""

\* setAuth(token)
setAuth(t) ==
  IF TruthyToken(t)
    THEN authHeader' = Bearer(t) /\ lsToken' = t
    ELSE authHeader' = NullRec /\ lsToken' = NoItem

\* a step of App leaves the other components alone; of Signup's variables
\* it may write localStorage 'token' only
AppOnly ==
  /\ UNCHANGED <<appLoading, path>>
  /\ UNCHANGED <<verifyVars, chatVars, resendVars>>
  /\ UNCHANGED <<email, password, name, occupation, allowLocation, location,
                 locationError, error, success, loading, emailValidation,
                 passwordValidation, touched, route, geoSupported, posPending,
                 geocodePending, signupReq, navTimers, ssToken, submits,
                 signupPosts>>

InitApp ==
  /\ SignupUnmounted
  /\ ResendIdle
  /\ lsToken \in StoredTokens
  /\ VerifyIdle
  /\ ChatIdle
  /\ AppIdle

\* the login form is on screen
LoginShown == appMounted /\ user = NullRec /\ view = "login"

\* The page loads: api.js attaches a stored token (lines 30-33), and App's
\* mount effect probes the session (App.jsx 11-22) up to the GET /auth/me
AppMount ==
  /\ ~appMounted
  /\ appMounted' = TRUE
  /\ IF TruthyToken(lsToken)
       THEN /\ setAuth(lsToken)
            /\ meReq' = Append(meReq, "probe")
       ELSE /\ UNCHANGED <<authHeader, lsToken, meReq>>
  /\ appEv' = "mount"
  /\ UNCHANGED <<user, view, loginError, loginReq, logins, unhandled>>
  /\ AppOnly

\* the .then of a GET /auth/me, of the probe or of onLoggedIn
MeResolve(i, u) ==
  /\ i \in 1..Len(meReq)
  /\ meReq' = RemoveAt(meReq, i)
  /\ user' = u
  /\ view' = "chat"
  /\ appEv' = IF meReq[i] = "probe" THEN "probeOk" ELSE "loginMeOk"
  /\ UNCHANGED <<loginError, appMounted, authHeader, lsToken, loginReq,
                 logins, unhandled>>
  /\ AppOnly

\* the probe without its .catch (a defect the claims must detect)
ProbeCatch_Missing ==
  /\ UNCHANGED <<authHeader, lsToken>>
  /\ unhandled' = unhandled + 1

\* the .catch of the probe, App.jsx 18-20
ProbeCatch ==
  /\ setAuth(NoItem)
  /\ UNCHANGED unhandled

\* the GET /auth/me of the probe rejects
ProbeReject(i) ==
  /\ i \in 1..Len(meReq)
  /\ meReq[i] = "probe"
  /\ meReq' = RemoveAt(meReq, i)
  /\ ProbeCatch
  /\ appEv' = "probeFailed"
  /\ UNCHANGED <<user, view, loginError, appMounted, loginReq, logins>>
  /\ AppOnly

\* the GET /auth/me of onLoggedIn rejects: the promise has a .then only
LoginMeReject(i) ==
  /\ i \in 1..Len(meReq)
  /\ meReq[i] = "login"
  /\ meReq' = RemoveAt(meReq, i)
  /\ unhandled' = unhandled + 1
  /\ appEv' = "loginMeFailed"
  /\ UNCHANGED <<user, view, loginError, appMounted, authHeader, lsToken,
                 loginReq, logins>>
  /\ AppOnly

\* the Login / Sign up buttons of the logged-out view; the form that is
\* replaced loses its state
SetView(v) ==
  /\ appMounted /\ user = NullRec
  /\ v \in {"login", "signup"} /\ v # view
  /\ view' = v
  /\ loginError' = NullStr
  /\ appEv' = "setView"
  /\ UNCHANGED <<user, appMounted, authHeader, lsToken, meReq, loginReq,
                 logins, unhandled>>
  /\ AppOnly

\* Login's submit up to its await of POST /auth/login
LoginSubmit ==
  /\ LoginShown
  /\ logins < MaxLogins
  /\ logins' = logins + 1
  /\ loginError' = NullStr
  /\ loginReq' = loginReq + 1
  /\ appEv' = "loginSubmit"
  /\ UNCHANGED <<user, view, appMounted, authHeader, lsToken, meReq,
                 unhandled>>
  /\ AppOnly

\* Login's submit after its await: onLoggedIn(access_token), App.jsx 24-30
LoginResolve(t) ==
  /\ loginReq > 0
  /\ loginReq' = loginReq - 1
  /\ setAuth(t)
  /\ meReq' = Append(meReq, "login")
  /\ appEv' = "loggedIn"
  /\ UNCHANGED <<user, view, loginError, appMounted, logins, unhandled>>
  /\ AppOnly

\* Login's catch; setError does nothing once the form is gone
LoginReject ==
  /\ loginReq > 0
  /\ loginReq' = loginReq - 1
  /\ loginError' = IF LoginShown THEN "Login failed" ELSE loginError
  /\ appEv' = "loginFailed"
  /\ UNCHANGED <<user, view, appMounted, authHeader, lsToken, meReq, logins,
                 unhandled>>
  /\ AppOnly

\* the Sidebar's logout button: the token and the header are removed and
\* the page reloads, which drops every state and continuation of the page
AppLogout ==
  /\ appMounted /\ user # NullRec
  /\ lsToken' = NoItem
  /\ authHeader' = NullRec
  /\ user' = NullRec
  /\ view' = "login"
  /\ loginError' = NullStr
  /\ appMounted' = FALSE
  /\ meReq' = <<>>
  /\ loginReq' = 0
  /\ appEv' = "logout"
  /\ UNCHANGED <<logins, unhandled>>
  /\ AppOnly

NextApp ==
  \/ AppMount
  \/ \E i \in 1..(MaxLogins + 1) : \E u \in Users : MeResolve(i, u)
  \/ \E i \in 1..(MaxLogins + 1) : ProbeReject(i)
  \/ \E i \in 1..(MaxLogins + 1) : LoginMeReject(i)
  \/ \E v \in {"login", "signup"} : SetView(v)
  \/ LoginSubmit
  \/ \E t \in LoginTokens : LoginResolve(t)
  \/ LoginReject
  \/ AppLogout

SpecApp == InitApp /\ [][NextApp]_vars

\* the logged-out view (Login or Signup) is rendered
LoggedOutView == user = NullRec /\ view \in {"login", "signup"}

C12_LoginFetchFailureClearsToken ==
  [][ /\ (lsToken # NoItem /\ lsToken' = NoItem)
        => appEv' \in {"logout", "probeFailed", "loginMeFailed"}
      /\ appEv' = "loginMeFailed"
        => (lsToken' = NoItem /\ authHeader' = NullRec) ]_vars

-----------------------------------------------------------------------------
(* VerifyEmailPage (Signup.jsx, lines 619-793)                             *)

\* bound on the clicks on the resend button in one behaviour
MaxResends == 3

\* location.state the page can be entered with: none (a direct visit), or
\* the state a navigation carries
NavStates == {NullRec} \cup {[email |-> e] : e \in Emails}

\* const email = location.state?.email || ''
PageEmail == IF navState = NullRec THEN <<>> ELSE navState.email

EmailNotFound == "Email not found. Please sign up again."
\* (the source puts a check mark before the text)
ResendSent == "Verification email sent! Check your inbox."
ResendFailed == "Failed to resend email. Please try again."

\* a POST in flight: its body, and whether the page instance that awaits it
\* is still mounted (the setters of an unmounted instance do nothing)
ResendRequest(e) == [email |-> e, live |-> TRUE]
Orphaned(reqs) == [i \in 1..Len(reqs) |-> [reqs[i] EXCEPT !.live = FALSE]]

ResendOnly == UNCHANGED <<signupVars, verifyVars, chatVars, appVars>>

InitResend ==
  /\ SignupIdle
  /\ VerifyIdle
  /\ ChatIdle
  /\ AppIdle
  /\ isResending = FALSE
  /\ resendMessage = ""
  /\ resendError = ""
  /\ navState \in NavStates
  /\ vpMounted = TRUE
  /\ resendReq = <<>>
  /\ resends = 0
  /\ resendPosts = 0

\* handleResendEmail without its first test (a defect the claims must
\* detect)
handleResendEmail_NoEmailTest ==
  /\ vpMounted /\ ~isResending
  /\ resends < MaxResends
  /\ resends' = resends + 1
  /\ isResending' = TRUE
  /\ resendMessage' = ""
  /\ resendError' = ""
  /\ resendReq' = Append(resendReq, ResendRequest(PageEmail))
  /\ resendPosts' = resendPosts + 1
  /\ UNCHANGED <<navState, vpMounted>>
  /\ ResendOnly

\* handleResendEmail up to its await; the button is disabled while
\* isResending
handleResendEmail ==
  /\ vpMounted /\ ~isResending
  /\ resends < MaxResends
  /\ resends' = resends + 1
  /\ IF PageEmail = <<>>
       THEN /\ resendError' = EmailNotFound
            /\ UNCHANGED <<isResending, resendMessage, resendReq, resendPosts>>
       ELSE /\ isResending' = TRUE
            /\ resendMessage' = ""
            /\ resendError' = ""
            /\ resendReq' = Append(resendReq, ResendRequest(PageEmail))
            /\ resendPosts' = resendPosts + 1
  /\ UNCHANGED <<navState, vpMounted>>
  /\ ResendOnly

\* the POST resolves: the rest of the try block and finally; the setters do
\* nothing once the page is gone
ResendResolve ==
  /\ resendReq # <<>>
  /\ resendReq' = Tail(resendReq)
  /\ IF Head(resendReq).live
       THEN /\ resendMessage' = ResendSent
            /\ resendError' = ""
            /\ isResending' = FALSE
       ELSE UNCHANGED <<resendMessage, resendError, isResending>>
  /\ UNCHANGED <<navState, vpMounted, resends, resendPosts>>
  /\ ResendOnly

\* the POST rejects: the catch block and finally
ResendReject ==
  /\ resendReq # <<>>
  /\ resendReq' = Tail(resendReq)
  /\ IF Head(resendReq).live
       THEN /\ resendError' = ResendFailed
            /\ resendMessage' = ""
            /\ isResending' = FALSE
       ELSE UNCHANGED <<resendMessage, resendError, isResending>>
  /\ UNCHANGED <<navState, vpMounted, resends, resendPosts>>
  /\ ResendOnly

\* the "Back to Login" button
VerifyPageGoToLogin ==
  /\ vpMounted
  /\ vpMounted' = FALSE
  /\ resendReq' = Orphaned(resendReq)
  /\ UNCHANGED <<isResending, resendMessage, resendError, navState,
                 resends, resendPosts>>
  /\ ResendOnly

\* the page is entered again (after a signup, or by its URL): a new
\* instance with its state as constructed
VerifyPageEnter(st) ==
  /\ ~vpMounted
  /\ vpMounted' = TRUE
  /\ navState' = st
  /\ isResending' = FALSE
  /\ resendMessage' = ""
  /\ resendError' = ""
  /\ UNCHANGED <<resendReq, resends, resendPosts>>
  /\ ResendOnly

NextResend ==
  \/ handleResendEmail
  \/ ResendResolve
  \/ ResendReject
  \/ VerifyPageGoToLogin
  \/ \E st \in NavStates : VerifyPageEnter(st)

SpecResend == InitResend /\ [][NextResend]_vars

\* C14: handleResendEmail issues POST /auth/resend-verification only with a
\* non-empty email, the one carried by the navigation state; with no email
\* it sets the local error 'Email not found. Please sign up again.' and
\* issues no call.
C14_ResendNeedsEmail ==
  [][ /\ resendPosts' # resendPosts
        => /\ PageEmail # <<>>
           /\ Len(resendReq') = Len(resendReq) + 1
           /\ Last(resendReq').email = PageEmail
      /\ resendReq' # resendReq /\ Len(resendReq') > Len(resendReq)
        => resendPosts' = resendPosts + 1
      /\ (resends' # resends /\ PageEmail = <<>>)
        => /\ resendError' = EmailNotFound
           /\ resendPosts' = resendPosts
           /\ resendReq' = resendReq
           /\ ~isResending' ]_vars

\* the button was clicked on a page entered without an email
C14_Witness ==
  /\ resends > 0
  /\ PageEmail = <<>>
  /\ resendError = EmailNotFound
  /\ resendPosts = 0
  /\ resendReq = <<>>

-----------------------------------------------------------------------------
(* Further claims about EmailVerifiedPage                                  *)

\* C15: the step that handles the answer to GET /auth/verify-email sets the
\* status of the mounted page to 'success' for response status 'success',
\* to 'already_verified' for 'already_verified', and to 'error' for any
\* other status and for a rejected call; the countdown interval is started
\* by the 'success' answer and by no other.
C15_TriStateMapping ==
  [][ verifyReq' = verifyReq - 1 =>
        /\ verifyAnswer'.settled \in {"resolved", "rejected"}
        /\ mounted =>
             status' = IF verifyAnswer' = Answer("resolved", "success")
                         THEN "success"
                       ELSE IF verifyAnswer' = Answer("resolved", "already_verified")
                         THEN "already_verified"
                       ELSE "error"
        /\ timers' = IF verifyAnswer' = Answer("resolved", "success")
                       THEN timers + 1 ELSE timers ]_vars

\* an unexpected status has been answered and the page shows the error
\* branch with no countdown running
C15_Witness ==
  /\ verifyAnswer = Answer("resolved", "pending")
  /\ mounted
  /\ status = "error"
  /\ timers = 0

-----------------------------------------------------------------------------
(* Further claims about Chat                                               *)

\* C16: renameChat and deleteChat invoked with no thread selected issue no
\* request, leave the selection, the message list and localStorage as they
\* are, and raise one alert, 'No chat selected'.
C16_NoThreadNoOp ==
  [][ (ev'.op \in {"renameChat", "deleteChat"} /\ thread = NullRec) =>
        /\ pending' = pending
        /\ srvThreads' = srvThreads
        /\ thread' = thread
        /\ messages' = messages
        /\ lastThread' = lastThread
        /\ ev'.alert = "No chat selected" ]_vars

\* rename was invoked with nothing selected and only the alert happened
C16_Witness ==
  /\ ev.op = "renameChat"
  /\ ev.alert = "No chat selected"
  /\ thread = NullRec
  /\ pending = <<>>

-----------------------------------------------------------------------------
(* validatePassword under typed input: the password field of Signup is    *)
(* typed, blurred and submitted with passwords built from a head and a    *)
(* tail, so that each of the eight checks fails alone and with others.    *)

PasswordHeads ==
  { <<>>,
    <<"a">>,
    <<"A">>,
    <<"a","b","c">>,
    <<"a","a","a">>,
    <<"P","a","s","s">>,
    <<"p","a","s","s">>,
    <<"P","A","S","S">>,
    <<"X","y","7","!">>,
    <<"1","2","3">> }

PasswordTails ==
  { <<>>,
    <<"1">>,
    <<"!">>,
    <<"1","2","3">>,
    <<"1","2","3","4","5">>,
    <<"w","0","r","d","!">>,
    <<"w","o","r","d">>,
    <<"w","o","r","d","1">>,
    <<"w","o","r","d","1","2","3">>,
    <<"Q","z","9","#","k","k","k">>,
    <<"Q","z","9","#","k","m","t">> }

\* what the user types into the password input
PasswordInputs == { h \o t : h \in PasswordHeads, t \in PasswordTails }

NextPassword ==
  \/ SignupMount
  \/ \E p \in PasswordInputs : SetPassword(p)
  \/ BlurPassword
  \/ submit

SpecPassword == InitSignup /\ [][NextPassword]_vars

\* C18: whenever the form stores a new result of validatePassword, for a
\* non-empty password isValid is true exactly when all eight checks have
\* passed, and the errors list holds one error string per failed check (the
\* failed checks' strings, each once, and nothing else); for the empty
\* password isValid is false.
C18_ValidIffAllChecksPass ==
  [][passwordValidation' # passwordValidation =>
       LET r == passwordValidation'
           failed == {k \in 1..Len(CheckNames) : ~r.checks[CheckNames[k]].passed}
       IN IF password' = <<>>
            THEN r.isValid = FALSE
            ELSE /\ r.isValid = (failed = {})
                 /\ Len(r.errors) = Cardinality(failed)
                 /\ \A k \in failed :
                      /\ r.checks[CheckNames[k]].error # ""
                      /\ Cardinality({i \in 1..Len(r.errors) :
                           r.errors[i] = r.checks[CheckNames[k]].error}) = 1
                 /\ \A i \in 1..Len(r.errors) :
                      \E k \in failed :
                        r.errors[i] = r.checks[CheckNames[k]].error]_vars

\* a non-empty password was validated and failed several checks at once
C18_Witness ==
  /\ password # <<>>
  /\ passwordValidation # UnsetValidation
  /\ ~passwordValidation.isValid
  /\ Len(passwordValidation.errors) >= 3
  /\ passwordValidation.checks.length.passed

\* the password of the example: abc12345
Abc12345 == <<"a","b","c","1","2","3","4","5">>

\* the checks a stored result of validatePassword reports as failed
FailedChecks(r) ==
  {CheckNames[k] : k \in {i \in 1..Len(CheckNames) :
                            ~r.checks[CheckNames[i]].passed}}

\* C19, as the code has it: once the password field holds abc12345 and has
\* been validated, the uppercase, special-character and sequential checks
\* have failed (the password contains abc and 123), isValid is false and the
\* errors list is exactly those three error strings.
C19_Abc12345ThreeErrors ==
  (password = Abc12345 /\ touched.password) =>
    /\ FailedChecks(passwordValidation) = {"uppercase", "special", "sequential"}
    /\ passwordValidation.isValid = FALSE
    /\ passwordValidation.errors =
         <<"Add at least one uppercase letter (A-Z)",
           "Add at least one special character",
           "Avoid sequential characters like 123 or abc">>

\* abc12345 has been typed and validated
C19_Witness ==
  /\ password = Abc12345
  /\ touched.password
  /\ passwordValidation = validatePassword(Abc12345)

\* C19, as stated: abc12345 fails the uppercase and special-character checks,
\* isValid is false and the errors list holds exactly those two error strings
\* and no others.
C19_Abc12345TwoErrors ==
  (password = Abc12345 /\ touched.password) =>
    /\ ~passwordValidation.checks.uppercase.passed
    /\ ~passwordValidation.checks.special.passed
    /\ passwordValidation.isValid = FALSE
    /\ Len(passwordValidation.errors) = 2
    /\ \A i \in 1..Len(passwordValidation.errors) :
         passwordValidation.errors[i] \in
           {"Add at least one uppercase letter (A-Z)",
            "Add at least one special character"}

-----------------------------------------------------------------------------
(* validateEmail under typed input: the email field of Signup is typed,   *)
(* blurred and submitted with emails built from a local-part and a domain. *)

\* local-parts, among them the empty one and one with a space
LocalParts ==
  { <<>>,
    <<"x">>,
    <<"a",".","b">>,
    <<"A","+","1">>,
    <<"a"," ","b">> }

\* domains as typed: every disposable domain, some in other letter cases,
\* and domains that are not in the set
DomainInputs ==
  DISPOSABLE_DOMAINS \cup
    { <<"M","a","i","l","i","n","a","t","o","r",".","c","o","m">>,
      <<"Y","O","P","M","A","I","L",".","C","O","M">>,
      <<"T","e","m","p","M","a","i","l",".","c","o","m">>,
      <<"b",".","c","o">>,
      <<"m","y","t","e","s","t",".","o","r","g">>,
      <<"n","o","d","o","t">>,
      <<"G","m","a","i","l",".","c","o","m">> }

\* what the user types into the email input
EmailInputs ==
  { l \o <<"@">> \o dom : l \in LocalParts, dom \in DomainInputs }
    \cup { <<>>, <<"x">>, <<"x","@">> }

NextEmail ==
  \/ SignupMount
  \/ \E e \in EmailInputs : SetEmail(e)
  \/ BlurEmail
  \/ submit

SpecEmail == InitSignup /\ [][NextEmail]_vars

DisposableError ==
  "Disposable email addresses are not allowed. Please use a legitimate email."

\* the email field holds local@domain with a domain that, case-folded, is in
\* the disposable set, and the field has been validated
DisposableTyped ==
  /\ touched.email
  /\ Len(split(email, "@")) = 2
  /\ toLowerCase(split(email, "@")[2]) \in DISPOSABLE_DOMAINS

\* C20, as the code has it: for every email whose domain (the part after @,
\* case-folded) is in the disposable set and whose local-part is not empty
\* and holds no whitespace, validateEmail returns isValid = false and its
\* errors include the disposable-domain message.
C20_DisposableRejected ==
  (/\ DisposableTyped
   /\ split(email, "@")[1] # <<>>
   /\ ~testClass(split(email, "@")[1], WhitespaceChars)) =>
    /\ emailValidation.isValid = FALSE
    /\ \E i \in 1..Len(emailValidation.errors) :
         emailValidation.errors[i] = DisposableError

\* a disposable domain typed in another letter case, with a local-part, has
\* been validated
C20_Witness ==
  /\ DisposableTyped
  /\ split(email, "@")[1] # <<>>
  /\ ~testClass(split(email, "@")[1], WhitespaceChars)
  /\ split(email, "@")[2] \notin DISPOSABLE_DOMAINS
  /\ emailValidation = validateEmail(email)

\* C20, as stated: for every email whose domain is in the disposable set, and
\* for every local-part, validateEmail returns isValid = false and its errors
\* include the disposable-domain message.
C20_DisposableAnyLocalPart ==
  DisposableTyped =>
    /\ emailValidation.isValid = FALSE
    /\ \E i \in 1..Len(emailValidation.errors) :
         emailValidation.errors[i] = DisposableError

\* C21: for every non-empty email that has no @ or whose domain (the part
\* after @) has no dot, the validated result is isValid = false with errors
\* exactly <<"Invalid email format">>: none of the domain checks has added
\* an error.
C21_FormatErrorOnly ==
  (/\ touched.email
   /\ email # <<>>
   /\ \/ ~includes(email, <<"@">>)
      \/ ~includes(split(email, "@")[2], <<".">>)) =>
    emailValidation = [isValid |-> FALSE, errors |-> <<"Invalid email format">>]

\* an email with a dot in its local-part and none in its domain has been
\* validated
C21_Witness ==
  /\ touched.email
  /\ includes(email, <<"@">>)
  /\ includes(split(email, "@")[1], <<".">>)
  /\ split(email, "@")[2] # <<>>
  /\ ~includes(split(email, "@")[2], <<".">>)
  /\ emailValidation = validateEmail(email)

-----------------------------------------------------------------------------
(* Further claims about Chat and Sidebar                                   *)

\* C22 (as claimed): in every state where no request is in flight, every
\* entry of the displayed message list belongs to the selected thread (and
\* the list is empty when no thread is selected).
C22_ListBelongsToSelection ==
  pending = <<>> =>
    \A i \in 1..Len(messages) :
      thread # NullRec /\ messages[i].tid = thread.id

\* C23 (as claimed): when send has been invoked again, with no thread
\* selected and no stored last thread, before the POST /threads of an
\* earlier send has resolved, the backend has created one thread for them:
\* the sends waiting for their new thread all get the same thread id.
C23_OneThreadForConcurrentSends ==
  \A i \in 1..Len(pending) : \A j \in 1..Len(pending) :
    (/\ pending[i].kind = "sendCreate" /\ pending[i].ok
     /\ pending[j].kind = "sendCreate" /\ pending[j].ok) =>
      pending[i].data.id = pending[j].data.id

-----------------------------------------------------------------------------
(* The session of one page: App with the Signup form it renders             *)
(* (App.jsx, line 40).  The form is followed while it is on screen.         *)

\* App renders <Signup/>
SignupShown == appMounted /\ user = NullRec /\ view = "signup"

NextSession ==
  \/ AppMount
  \/ \E i \in 1..(MaxLogins + 1) : \E u \in Users : MeResolve(i, u)
  \/ \E i \in 1..(MaxLogins + 1) : ProbeReject(i)
  \/ \E i \in 1..(MaxLogins + 1) : LoginMeReject(i)
  \/ (~SignupMounted /\ SetView("signup"))
  \/ LoginSubmit
  \/ \E t \in LoginTokens : LoginResolve(t)
  \/ LoginReject
  \/ (~SignupMounted /\ AppLogout)
  \/ (SignupShown /\ SignupMount)
  \/ \E e \in Emails : (SignupShown /\ SetEmail(e))
  \/ \E p \in Passwords : (SignupShown /\ SetPassword(p))
  \/ (SignupShown /\ submit)
  \/ (SignupShown /\ SignupResolve)
  \/ \E d \in SignupDetails : (SignupShown /\ SignupReject(d))

SpecSession == InitApp /\ [][NextSession]_vars

\* C24 (as claimed): once the page has loaded, the Authorization default
\* header is present exactly when a token is stored under localStorage
\* 'token'.
C24_HeaderIffStoredToken ==
  appMounted => ((authHeader # NullRec) <=> (lsToken # NoItem))

-----------------------------------------------------------------------------
(* Further claims about the location of Signup                             *)

\* C25 (as claimed): a submit made while allowLocation is false posts a
\* payload with no location_* field.
C25_DeclinedLocationNotSent ==
  [][ (signupPosts' = signupPosts + 1 /\ ~allowLocation) =>
        "location_city" \notin Last(signupReq').keys ]_vars

-----------------------------------------------------------------------------
(* Further claims about Chat and Sidebar, continued                        *)

\* C26 (as claimed): when the sidebar's delete of the selected thread has
\* succeeded and the selection has become null, the displayed message list
\* is empty.
C26_SidebarDeleteEmptiesList ==
  [][ (ev'.op = "sidebarDeleted" /\ ev'.req.sel) =>
        (thread' = NullRec /\ messages' = <<>>) ]_vars

\* C27: when the PUT of renameChat or the DELETE of deleteChat fails, the
\* selection, the displayed list and the stored last-thread item are left
\* as they were, one failure alert is raised, and no request is issued: the
\* failed request leaves the requests in flight and nothing joins them.
C27_FailedRenameDeleteChangesNothing ==
  [][ ev'.op \in {"renameFailed", "deleteFailed"} =>
        /\ thread' = thread
        /\ messages' = messages
        /\ lastThread' = lastThread
        /\ srvThreads' = srvThreads
        /\ ev'.alert = (IF ev'.op = "renameFailed" THEN "Rename failed"
                        ELSE "Delete failed")
        /\ ev'.gets = {} /\ ~ev'.signal
        /\ \E i \in 1..Len(pending) :
             /\ pending[i].kind = ev'.req.kind
             /\ pending[i] = ev'.req
             /\ Len(pending') = Len(pending) - 1
             /\ \A j \in 1..Len(pending') :
                  /\ pending'[j].kind = RemoveAt(pending, i)[j].kind
                  /\ pending'[j] = RemoveAt(pending, i)[j] ]_vars

\* a delete of the selected thread has failed with entries on display
C27_Witness ==
  /\ ev.op = "deleteFailed"
  /\ ev.alert = "Delete failed"
  /\ thread # NullRec
  /\ thread = ev.req.t
  /\ messages # <<>>
  /\ lastThread = JSONstringify(thread)

-----------------------------------------------------------------------------
(* Further claims about EmailVerifiedPage, continued                       *)

\* C28 (as claimed): on a successful verification the countdown starts at
\* 3; every timer tick decreases it by one; it never goes below 0 and never
\* increases; the timer navigates to /login once only, on the third tick,
\* and after that the timer does not fire again.
C28_CountdownRunsOnce ==
  [][ /\ (verifyAnswer' # verifyAnswer /\ verifyAnswer'.status = "success")
           => countdown' = CountdownStart
      /\ countdown' <= countdown /\ countdown' >= 0
      /\ timerTicks' # timerTicks => countdown' = countdown - 1
      /\ timerNavs' # timerNavs => (timerNavs' = 1 /\ timerTicks' = CountdownStart)
      /\ timerNavs >= 1 => timerTicks' = timerTicks ]_vars

-----------------------------------------------------------------------------
(* The routed App (README.md, lines 309-399) with Login and the Sidebar's  *)
(* logout.  `view` is not part of this App and keeps its initial value.    *)

\* the locations a visit can start at or move to; "/nowhere" matches no
\* route but "*"
Paths ==
  { "/", "/login", "/signup", "/verify-email", "/email-verified", "/chat",
    "/nowhere" }

\* the location the router settles on for user u: the <Navigate> elements
\* of the routes, followed until a route renders a page
Route(p, u) ==
  IF p \in {"/verify-email", "/email-verified"} THEN p
  ELSE IF u # NullRec THEN "/chat"
  ELSE IF p = "/signup" THEN "/signup"
  ELSE "/login"

\* a step of the routed App leaves the other components alone; of Signup's
\* variables it may write localStorage 'token' only
RoutedOnly ==
  /\ UNCHANGED <<verifyVars, chatVars, resendVars, view>>
  /\ UNCHANGED <<email, password, name, occupation, allowLocation, location,
                 locationError, error, success, loading, emailValidation,
                 passwordValidation, touched, route, geoSupported, posPending,
                 geocodePending, signupReq, navTimers, ssToken, submits,
                 signupPosts>>

InitRouted ==
  /\ SignupUnmounted
  /\ ResendIdle
  /\ VerifyIdle
  /\ ChatIdle
  /\ lsToken \in StoredTokens
  /\ user = NullRec
  /\ view = "login"
  /\ loginError = NullStr
  /\ appMounted = FALSE
  /\ authHeader = NullRec
  /\ meReq = <<>>
  /\ loginReq = 0
  /\ logins = 0
  /\ unhandled = 0
  /\ appEv = "init"
  /\ appLoading = TRUE
  /\ path \in Paths

\* the page shows the Login form / the Chat
RoutedLoginShown ==
  appMounted /\ ~appLoading /\ path = "/login" /\ user = NullRec
RoutedChatShown == appMounted /\ ~appLoading /\ path = "/chat"

\* The page loads: api.js attaches a stored token, and App's mount effect
\* (lines 313-330) either probes the session or ends the loading state
RoutedMount ==
  /\ ~appMounted
  /\ appMounted' = TRUE
  /\ IF TruthyToken(lsToken)
       THEN /\ setAuth(lsToken)
            /\ meReq' = Append(meReq, "probe")
            /\ UNCHANGED <<appLoading, path>>
       ELSE /\ appLoading' = FALSE
            /\ path' = Route(path, user)
            /\ UNCHANGED <<authHeader, lsToken, meReq>>
  /\ appEv' = "mount"
  /\ UNCHANGED <<user, loginError, loginReq, logins, unhandled>>
  /\ RoutedOnly

\* the .then of a GET /auth/me, of the probe (with its .finally) or of
\* onLoggedIn
RoutedMeResolve(i, u) ==
  /\ i \in 1..Len(meReq)
  /\ meReq' = RemoveAt(meReq, i)
  /\ user' = u
  /\ appLoading' = IF meReq[i] = "probe" THEN FALSE ELSE appLoading
  /\ path' = IF appLoading' THEN path ELSE Route(path, u)
  /\ loginError' = NullStr
  /\ appEv' = IF meReq[i] = "probe" THEN "probeOk" ELSE "loginMeOk"
  /\ UNCHANGED <<appMounted, authHeader, lsToken, loginReq, logins, unhandled>>
  /\ RoutedOnly

\* the probe whose rejection leaves the loading state on (a defect the
\* claims must detect)
RoutedProbeReject_NoFinally(i) ==
  /\ i \in 1..Len(meReq)
  /\ meReq[i] = "probe"
  /\ meReq' = RemoveAt(meReq, i)
  /\ setAuth(NoItem)
  /\ appEv' = "probeFailed"
  /\ UNCHANGED <<user, loginError, appMounted, loginReq, logins, unhandled,
                 appLoading, path>>
  /\ RoutedOnly

\* the GET /auth/me of the probe rejects: its .catch and its .finally
RoutedProbeReject(i) ==
  /\ i \in 1..Len(meReq)
  /\ meReq[i] = "probe"
  /\ meReq' = RemoveAt(meReq, i)
  /\ setAuth(NoItem)
  /\ appLoading' = FALSE
  /\ path' = Route(path, user)
  /\ appEv' = "probeFailed"
  /\ UNCHANGED <<user, loginError, appMounted, loginReq, logins, unhandled>>
  /\ RoutedOnly

\* Login's catch; setError does nothing once the form is gone
RoutedLoginReject ==
  /\ loginReq > 0
  /\ loginReq' = loginReq - 1
  /\ loginError' = IF RoutedLoginShown THEN "Login failed" ELSE loginError
  /\ appEv' = "loginFailed"
  /\ UNCHANGED <<user, appMounted, authHeader, lsToken, meReq, logins,
                 unhandled, appLoading, path>>
  /\ RoutedOnly

\* the user moves to location p (a link, a button or the history); a form
\* that is replaced loses its state
RoutedGo(p) ==
  /\ appMounted /\ ~appLoading
  /\ Route(p, user) # path
  /\ path' = Route(p, user)
  /\ loginError' = NullStr
  /\ appEv' = "go"
  /\ UNCHANGED <<user, appMounted, authHeader, lsToken, meReq, loginReq,
                 logins, unhandled, appLoading>>
  /\ RoutedOnly

\* the Sidebar's logout button (Sidebar.jsx 399-403): the token and the
\* header are removed and the page reloads at the same location, which
\* drops every state and continuation of the page
RoutedLogout ==
  /\ RoutedChatShown
  /\ lsToken' = NoItem
  /\ authHeader' = NullRec
  /\ user' = NullRec
  /\ loginError' = NullStr
  /\ appLoading' = TRUE
  /\ appMounted' = FALSE
  /\ meReq' = <<>>
  /\ loginReq' = 0
  /\ appEv' = "logout"
  /\ UNCHANGED <<logins, unhandled, path>>
  /\ RoutedOnly

\* the probe's GET /auth/me is answered
ProbeSettles ==
  \/ \E i \in 1..(MaxLogins + 1) : \E u \in Users :
       (i <= Len(meReq) /\ meReq[i] = "probe" /\ RoutedMeResolve(i, u))
  \/ \E i \in 1..(MaxLogins + 1) : RoutedProbeReject(i)

NextRouted ==
  \/ RoutedMount
  \/ \E i \in 1..(MaxLogins + 1) : \E u \in Users : RoutedMeResolve(i, u)
  \/ \E i \in 1..(MaxLogins + 1) : RoutedProbeReject(i)
  \/ \E i \in 1..(MaxLogins + 1) : LoginMeReject(i)
  \/ (RoutedLoginShown /\ LoginSubmit)
  \/ \E t \in LoginTokens : LoginResolve(t)
  \/ RoutedLoginReject
  \/ \E p \in Paths : RoutedGo(p)
  \/ RoutedLogout

\* every GET /auth/me of the probe is answered in the end
SpecRouted == InitRouted /\ [][NextRouted]_vars /\ WF_vars(ProbeSettles)

\* C29: in the routed App, a mount with no stored token ends the loading
\* state without issuing a request; with a stored token, loading ends when
\* the GET /auth/me of the probe resolves or rejects, and so, that request
\* being answered, it ends eventually; within one page load loading never
\* becomes true again once false; Chat is shown only while user is
\* non-null, and user becomes non-null only when a GET /auth/me succeeds.
C29_LoadingEndsAndChatNeedsUser ==
  /\ [][ /\ (~appMounted /\ appMounted' /\ ~TruthyToken(lsToken))
              => (~appLoading' /\ meReq' = <<>>)
         /\ (appLoading /\ appMounted' /\ meReq' # meReq /\ meReq # <<>>)
              => ~appLoading'
         /\ (~appLoading /\ appMounted') => ~appLoading'
         /\ (user = NullRec /\ user' # NullRec)
              => (appEv' \in {"probeOk", "loginMeOk"} /\ Len(meReq') < Len(meReq))
       ]_vars
  /\ [](RoutedChatShown => user # NullRec)
  /\ ((appMounted /\ appLoading) ~> ~appLoading)

\* the probe has failed on a visit to /chat: loading has ended, the Login
\* form is shown instead of the Chat
C29_Witness ==
  /\ appEv = "probeFailed"
  /\ ~appLoading
  /\ user = NullRec
  /\ path = "/login"
  /\ lsToken = NoItem

\* C30: with several loads of the Sidebar in flight (the mount's, those of
\* 'refresh-threads' signals, those of the rename and delete handlers), the
\* answer of a load never overwrites the lists that the answer of a load
\* issued after it has set: once every load has settled the lists are those
\* of the load issued last.
C30_NewestLoadWins ==
  [][ (ev'.op = "sidebarLoaded" /\ ev'.req.replaced)
        => UNCHANGED <<projects, personalThreads, projectThreads>> ]_vars

=============================================================================
